------------------------------ MODULE Spec2Model ------------------------------
(***************************************************************************)
(* The report normalisation layer of projetDevsecopsAI: the parsers of     *)
(* src/parsers (parse_report and its dialect parsers, parse_snyk_report,   *)
(* parse_zap_json), the per-finding formatters and the prepare_*_text      *)
(* entry points, as a state machine of one command-line run.               *)
(*                                                                         *)
(* A Python str is a sequence of one-character strings, so that len,       *)
(* slicing, concatenation, upper(), strip() and split() are computed as    *)
(* Python computes them; a character outside ASCII is written <U+hhhh>.    *)
(* A Python value (what json.load returns, and what the parsers build) is  *)
(* a record of one shape:                                                  *)
(*   t  the type: "null", "bool", "int", "str", "list", "dict"             *)
(*   s  the characters of a str                                            *)
(*   n  the value of an int, 1/0 for a bool                                *)
(*   k  the keys of a dict, in insertion order                             *)
(*   v  the items of a list, or the values of a dict (parallel to k)       *)
(* A computation that may raise returns [exc, val]: exc is "" or the name  *)
(* of the exception raised.                                                *)
(***************************************************************************)
EXTENDS Integers, Sequences, FiniteSets, TLC

VARIABLES
  tool,      \* the entry point run: "sast", "dastpr", "sca" or "zap"
  argv_ok,   \* whether both <report> and <out.txt> are on the command line
  file,      \* the report file: [state: "missing" | "invalid" | "json", data]
  pc,        \* position of the run: "main", "parse", "render", "write", "exit"
  vulns,     \* the findings the parser returned, as the sequence of the list's items
  dialect,   \* the dialect parse_report detected, "" when none
  blocks,    \* the per-finding text blocks, in the order they were rendered
  output,    \* the text assembled for the output file
  outfile,   \* the output file: [written: BOOLEAN, text]
  exc,       \* the exception that ended the run, "" when none
  exitcode,  \* the exit status, -1 while the run is not over
  retries,   \* HuggingFaceClient.generate: its argument retries
  attempt,   \* HuggingFaceClient.generate: the loop variable
  calls,     \* the calls made to the completion service
  sleeps,    \* the calls made to time.sleep
  reply,     \* what the service answered to the last call
  returned   \* what the function called has returned, as a Python value

\* The variables of a run of a parser entry point, pc apart.
run_vars == <<tool, argv_ok, file, vulns, dialect, blocks, output, outfile, exc, exitcode>>

\* The variables of a call to a language model.
call_vars == <<retries, attempt, calls, sleeps, reply, returned>>

vars == <<tool, argv_ok, file, pc, vulns, dialect, blocks, output, outfile, exc, exitcode,
          retries, attempt, calls, sleeps, reply, returned>>

-----------------------------------------------------------------------------
(* Bounds of the model. *)

\* The most records (issues, results, vulnerabilities, alerts) in one report.
MaxRecords == 2

\* How far around MAX_CHARS_PER_ITEM the untruncated render lengths are drawn.
Slack == 2

-----------------------------------------------------------------------------
(* String literals of the source, one table per file. *)

(* The dictionary keys the parsers and formatters name, as character sequences ("schema" is the key $schema). *)
K ==
  [ schema |-> <<"$","s","c","h","e","m","a">>,
    issues |-> <<"i","s","s","u","e","s">>,
    runs |-> <<"r","u","n","s">>,
    sarif |-> <<"s","a","r","i","f">>,
    component |-> <<"c","o","m","p","o","n","e","n","t">>,
    line |-> <<"l","i","n","e">>,
    key |-> <<"k","e","y">>,
    message |-> <<"m","e","s","s","a","g","e">>,
    severity |-> <<"s","e","v","e","r","i","t","y">>,
    rule |-> <<"r","u","l","e">>,
    results |-> <<"r","e","s","u","l","t","s">>,
    locations |-> <<"l","o","c","a","t","i","o","n","s">>,
    physicalLocation |-> <<"p","h","y","s","i","c","a","l","L","o","c","a","t","i","o","n">>,
    artifactLocation |-> <<"a","r","t","i","f","a","c","t","L","o","c","a","t","i","o","n">>,
    region |-> <<"r","e","g","i","o","n">>,
    uri |-> <<"u","r","i">>,
    startLine |-> <<"s","t","a","r","t","L","i","n","e">>,
    text |-> <<"t","e","x","t">>,
    ruleId |-> <<"r","u","l","e","I","d">>,
    level |-> <<"l","e","v","e","l">>,
    id |-> <<"i","d">>,
    title |-> <<"t","i","t","l","e">>,
    description |-> <<"d","e","s","c","r","i","p","t","i","o","n">>,
    location |-> <<"l","o","c","a","t","i","o","n">>,
    file |-> <<"f","i","l","e">>,
    recommendation |-> <<"r","e","c","o","m","m","e","n","d","a","t","i","o","n">>,
    type |-> <<"t","y","p","e">>,
    vulnerabilities |-> <<"v","u","l","n","e","r","a","b","i","l","i","t","i","e","s">>,
    packageName |-> <<"p","a","c","k","a","g","e","N","a","m","e">>,
    version |-> <<"v","e","r","s","i","o","n">>,
    identifiers |-> <<"i","d","e","n","t","i","f","i","e","r","s">>,
    CVE |-> <<"C","V","E">>,
    cvssScore |-> <<"c","v","s","s","S","c","o","r","e">>,
    fixedIn |-> <<"f","i","x","e","d","I","n">>,
    upgradePath |-> <<"u","p","g","r","a","d","e","P","a","t","h">>,
    package |-> <<"p","a","c","k","a","g","e">>,
    current_version |-> <<"c","u","r","r","e","n","t","_","v","e","r","s","i","o","n">>,
    recommended_version |->
        <<"r","e","c","o","m","m","e","n","d","e","d","_","v","e","r","s","i","o","n">>,
    cve |-> <<"c","v","e">>,
    cvss |-> <<"c","v","s","s">>,
    site |-> <<"s","i","t","e">>,
    alerts |-> <<"a","l","e","r","t","s">>,
    alert |-> <<"a","l","e","r","t">>,
    desc |-> <<"d","e","s","c">>,
    instances |-> <<"i","n","s","t","a","n","c","e","s">>,
    solution |-> <<"s","o","l","u","t","i","o","n">>,
    riskdesc |-> <<"r","i","s","k","d","e","s","c">>,
    confidence |-> <<"c","o","n","f","i","d","e","n","c","e">>,
    cweid |-> <<"c","w","e","i","d">>,
    wascid |-> <<"w","a","s","c","i","d">> ]

(* String literals of parser_input.py. *)
ParserInputText ==
  [ SAST |-> <<"S","A","S","T">>,
    NA |-> <<"N","/","A">>,
    NoTitle |-> <<"N","o"," ","t","i","t","l","e">>,
    NoDescription |-> <<"N","o"," ","d","e","s","c","r","i","p","t","i","o","n">>,
    UNKNOWN |-> <<"U","N","K","N","O","W","N">>,
    thisIssue |-> <<"t","h","i","s"," ","i","s","s","u","e">>,
    Fix |-> <<"F","i","x"," ">>,
    ReferSonar |->
        <<" ","-"," ","R","e","f","e","r"," ","t","o"," ","S","o","n","a","r","Q","u","b","e",
          " ","d","o","c","u","m","e","n","t","a","t","i","o","n">>,
    Unknown |-> <<"U","n","k","n","o","w","n">>,
    warning |-> <<"w","a","r","n","i","n","g">>,
    ReviewAndFix |-> <<"R","e","v","i","e","w"," ","a","n","d"," ","f","i","x"," ">>,
    ReviewThis |->
        <<"R","e","v","i","e","w"," ","a","n","d"," ","f","i","x"," ","t","h","i","s"," ","i",
          "s","s","u","e">>,
    colon |-> <<":">> ]

(* String literals of parsast.py (f1..f6 are the constant pieces of format_sast's f-string). *)
ParsastText ==
  [ SastFinding |-> <<"S","A","S","T"," ","f","i","n","d","i","n","g">>,
    NA |-> <<"N","/","A">>,
    NoRec |->
        <<"A","u","c","u","n","e"," ","r","e","c","o","m","m","a","n","d","a","t","i","o","n",
          " ","f","o","u","r","n","i","e",".">>,
    f1 |-> <<"-","-","-"," ","F","i","n","d","i","n","g"," ","#">>,
    f2 |-> <<" ","-","-","-","\n","T","i","t","r","e",":"," ">>,
    f3 |-> <<"\n","E","m","p","l","a","c","e","m","e","n","t",":"," ">>,
    f4 |-> <<"\n","D","e","s","c","r","i","p","t","i","o","n",":"," ">>,
    f5 |-> <<"\n","R","e","c","o","m","m","a","n","d","a","t","i","o","n",":"," ">>,
    f6 |-> <<"\n">>,
    truncated |-> <<"\n","[",".",".",".","t","r","u","n","c","a","t","e","d","]","\n">>,
    SAST |-> <<"S","A","S","T">>,
    header |->
        <<"R","<U+00E9>","s","u","m","<U+00E9>"," ","S","A","S","T"," ","<U+2014>"," ","f","o",
          "r","m","a","t","<U+00E9>"," ","p","o","u","r"," ","L","L","M","\n","C","h","a","q",
          "u","e"," ","e","n","t","r","<U+00E9>","e",":"," ","T","i","t","l","e",","," ","L",
          "o","c","a","t","i","o","n",","," ","D","e","s","c","r","i","p","t","i","o","n",",",
          " ","R","e","c","o","m","m","e","n","d","a","t","i","o","n","\n","\n">>,
    none |->
        <<"A","u","c","u","n","e"," ","v","u","l","n","<U+00E9>","r","a","b","i","l","i","t",
          "<U+00E9>"," ","S","A","S","T"," ","t","r","o","u","v","<U+00E9>","e",".","\n">>,
    nl |-> <<"\n">> ]

(* String literals of parsers/pardast.py (f1..f6 are the constant pieces of format_dast's f-string). *)
PardastText ==
  [ DastFinding |-> <<"D","A","S","T"," ","f","i","n","d","i","n","g">>,
    NA |-> <<"N","/","A">>,
    DefaultRec |->
        <<"V","<U+00E9>","r","i","f","i","e","r"," ","l","a"," ","c","o","n","f","i","g","u",
          "r","a","t","i","o","n"," ","e","t"," ","c","o","r","r","i","g","e","r"," ","l","a",
          " ","v","u","l","n","<U+00E9>","r","a","b","i","l","i","t","<U+00E9>",".">>,
    f1 |-> <<"-","-","-"," ","D","A","S","T"," ","F","i","n","d","i","n","g"," ","#">>,
    f2 |-> <<" ","-","-","-","\n","V","u","l","n","e","r","a","b","i","l","i","t","y",":"," ">>,
    f3 |->
        <<"\n","T","a","r","g","e","t"," ","(","U","R","L","/","E","n","d","p","o","i","n","t",
          ")",":"," ">>,
    f4 |-> <<"\n","D","e","s","c","r","i","p","t","i","o","n",":"," ">>,
    f5 |-> <<"\n","R","e","c","o","m","m","e","n","d","a","t","i","o","n",":"," ">>,
    f6 |-> <<"\n">>,
    truncated |-> <<"\n","[",".",".",".","t","r","u","n","c","a","t","e","d","]","\n">>,
    DAST |-> <<"D","A","S","T">>,
    header |->
        <<"R","<U+00E9>","s","u","m","<U+00E9>"," ","D","A","S","T"," ","<U+2014>"," ","t","e",
          "s","t","s"," ","d","y","n","a","m","i","q","u","e","s"," ","(","f","o","r","m","a",
          "t","<U+00E9>"," ","p","o","u","r"," ","L","L","M",")","\n","\n">>,
    none |->
        <<"A","u","c","u","n","e"," ","v","u","l","n","<U+00E9>","r","a","b","i","l","i","t",
          "<U+00E9>"," ","D","A","S","T"," ","t","r","o","u","v","<U+00E9>","e",".","\n">>,
    nl |-> <<"\n">> ]

(* String literals of dast/pardast.py (f1..f8 are the constant pieces of format_dast's f-string). *)
ZapText ==
  [ DAST |-> <<"D","A","S","T">>,
    UnknownVuln |->
        <<"U","n","k","n","o","w","n"," ","v","u","l","n","e","r","a","b","i","l","i","t","y">>,
    NA |-> <<"N","/","A">>,
    DefaultRec |->
        <<"V","<U+00E9>","r","i","f","i","e","r"," ","l","a"," ","c","o","n","f","i","g","u",
          "r","a","t","i","o","n"," ","e","t"," ","c","o","r","r","i","g","e","r"," ","l","a",
          " ","v","u","l","n","<U+00E9>","r","a","b","i","l","i","t","<U+00E9>",".">>,
    Unknown |-> <<"U","n","k","n","o","w","n">>,
    DastFinding |-> <<"D","A","S","T"," ","f","i","n","d","i","n","g">>,
    f1 |-> <<"-","-","-"," ","D","A","S","T"," ","F","i","n","d","i","n","g"," ","#">>,
    f2 |-> <<" ","-","-","-","\n","V","u","l","n","e","r","a","b","i","l","i","t","y",":"," ">>,
    f3 |-> <<"\n","S","e","v","e","r","i","t","y",":"," ">>,
    f4 |-> <<"\n","C","o","n","f","i","d","e","n","c","e",":"," ">>,
    f5 |->
        <<"\n","T","a","r","g","e","t"," ","(","U","R","L","/","E","n","d","p","o","i","n","t",
          ")",":"," ">>,
    f6 |-> <<"\n","D","e","s","c","r","i","p","t","i","o","n",":"," ">>,
    f7 |-> <<"\n","R","e","c","o","m","m","e","n","d","a","t","i","o","n",":"," ">>,
    f8 |-> <<"\n">>,
    cwe |-> <<"C","W","E"," ","I","D",":"," ">>,
    wasc |-> <<"W","A","S","C"," ","I","D",":"," ">>,
    truncated |-> <<"\n","[",".",".",".","t","r","u","n","c","a","t","e","d","]","\n">>,
    header |->
        <<"R","<U+00E9>","s","u","m","<U+00E9>"," ","D","A","S","T"," ","<U+2014>"," ","t","e",
          "s","t","s"," ","d","y","n","a","m","i","q","u","e","s"," ","(","f","o","r","m","a",
          "t","<U+00E9>"," ","p","o","u","r"," ","L","L","M",")","\n","S","o","u","r","c","e",
          ":"," ","O","W","A","S","P"," ","Z","A","P"," ","B","a","s","e","l","i","n","e"," ",
          "S","c","a","n","\n","\n">>,
    none1 |->
        <<"A","u","c","u","n","e"," ","v","u","l","n","<U+00E9>","r","a","b","i","l","i","t",
          "<U+00E9>"," ","D","A","S","T"," ","t","r","o","u","v","<U+00E9>","e",".","\n">>,
    none2 |->
        <<"L","'","a","p","p","l","i","c","a","t","i","o","n"," ","a"," ","p","a","s","s","<U+00E9>",
          " ","l","e"," ","s","c","a","n"," ","d","y","n","a","m","i","q","u","e"," ","d","e",
          " ","b","a","s","e"," ","a","v","e","c"," ","s","u","c","c","<U+00E8>","s",".","\n">>,
    total |->
        <<"T","o","t","a","l"," ","d","e","s"," ","v","u","l","n","<U+00E9>","r","a","b","i",
          "l","i","t","<U+00E9>","s"," ","t","r","o","u","v","<U+00E9>","e","s",":"," ">>,
    nlnl |-> <<"\n","\n">>,
    nl |-> <<"\n">> ]

(* String literals of parsca.py (f1..f10 are the constant pieces of format_sca_simple's f-string). *)
ParscaText ==
  [ unknown |-> <<"u","n","k","n","o","w","n">>,
    NoTitle |-> <<"N","o"," ","t","i","t","l","e">>,
    NA |-> <<"N","/","A">>,
    NoFix |-> <<"N","o"," ","f","i","x"," ","a","v","a","i","l","a","b","l","e">>,
    CRITICAL |-> <<"C","R","I","T","I","C","A","L">>,
    HIGH |-> <<"H","I","G","H">>,
    MEDIUM |-> <<"M","E","D","I","U","M">>,
    LOW |-> <<"L","O","W">>,
    UNKNOWN |-> <<"U","N","K","N","O","W","N">>,
    e4 |-> <<"*","*","*","*">>,
    e3 |-> <<"*","*","*">>,
    e2 |-> <<"*","*">>,
    e1 |-> <<"*">>,
    e0 |-> <<"-">>,
    f1 |-> <<"[">>,
    f2 |-> <<"]"," ">>,
    f3 |-> <<" ">>,
    f4 |-> <<"\n","P","a","c","k","a","g","e",":"," ">>,
    f5 |-> <<"\n","C","u","r","r","e","n","t"," ","V","e","r","s","i","o","n",":"," ">>,
    f6 |-> <<"\n","F","i","x"," ","V","e","r","s","i","o","n",":"," ">>,
    f7 |-> <<"\n","I","s","s","u","e",":"," ">>,
    f8 |-> <<"\n","C","V","E",":"," ">>,
    f9 |-> <<" ","|"," ","C","V","S","S",":"," ">>,
    f10 |-> <<"\n">>,
    none |->
        <<"N","o"," ","S","C","A"," ","v","u","l","n","e","r","a","b","i","l","i","t","i","e",
          "s"," ","f","o","u","n","d",".","\n">>,
    nl |-> <<"\n">>,
    rule |->
        <<"=","=","=","=","=","=","=","=","=","=","=","=","=","=","=","=","=","=","=","=","=",
          "=","=","=","=","=","=","=","=","=","=","=","=","=","=","=","=","=","=","=","=","=",
          "=","=","=","=","=","=","=","=","=","=","=","=","=","=","=","=","=","=","\n">>,
    sumTitle |->
        <<"S","E","C","U","R","I","T","Y"," ","V","U","L","N","E","R","A","B","I","L","I","T",
          "I","E","S"," ","S","U","M","M","A","R","Y","\n">>,
    sumTotal |->
        <<"T","o","t","a","l"," ","V","u","l","n","e","r","a","b","i","l","i","t","i","e","s",
          ":"," ">>,
    sumCritical |-> <<" "," ","*","*","*","*"," ","C","r","i","t","i","c","a","l",":"," ">>,
    sumHigh |-> <<" "," ","*","*","*"," ","H","i","g","h",":"," ">>,
    sumMedium |-> <<" "," ","*","*"," ","M","e","d","i","u","m",":"," ">>,
    sumLow |-> <<" "," ","*"," ","L","o","w",":"," ">>,
    ruleEnd |->
        <<"=","=","=","=","=","=","=","=","=","=","=","=","=","=","=","=","=","=","=","=","=",
          "=","=","=","=","=","=","=","=","=","=","=","=","=","=","=","=","=","=","=","=","=",
          "=","=","=","=","=","=","=","=","=","=","=","=","=","=","=","=","=","=","\n","\n">> ]

(* How an f-string prints None and the booleans, and the messages of the AttributeErrors on None. *)
PyText ==
  [ None |-> <<"N","o","n","e">>,
    True |-> <<"T","r","u","e">>,
    False |-> <<"F","a","l","s","e">>,
    noStrip |->
        <<"'","N","o","n","e","T","y","p","e","'"," ","o","b","j","e","c","t"," ","h","a","s",
          " ","n","o"," ","a","t","t","r","i","b","u","t","e"," ","'","s","t","r","i","p","'">>,
    noFind |->
        <<"'","N","o","n","e","T","y","p","e","'"," ","o","b","j","e","c","t"," ","h","a","s",
          " ","n","o"," ","a","t","t","r","i","b","u","t","e"," ","'","f","i","n","d","'">> ]

(* The strings of the sample reports. *)
Sample ==
  [ k1 |-> <<"k","1">>,
    component |-> <<"p","r","o","j",":","s","r","c","/","a",".","p","y">>,
    plain |-> <<"b",".","p","y">>,
    m |-> <<"m">>,
    MAJOR |-> <<"M","A","J","O","R">>,
    r1 |-> <<"r","1">>,
    R1 |-> <<"R","1">>,
    error |-> <<"e","r","r","o","r">>,
    SQL |-> <<"S","Q","L"," ","I","n","j","e","c","t","i","o","n">>,
    apppy |-> <<"a","p","p",".","p","y">>,
    sarifSchema |->
        <<"h","t","t","p","s",":","/","/","j","s","o","n",".","s","c","h","e","m","a","s","t",
          "o","r","e",".","o","r","g","/","s","a","r","i","f","-","2",".","1",".","0",".","j",
          "s","o","n">>,
    other |-> <<"x">>,
    findings |-> <<"f","i","n","d","i","n","g","s">>,
    meta |-> <<"m","e","t","a">>,
    more |-> <<"m","o","r","e">>,
    t |-> <<"t">>,
    d |-> <<" ","d"," ">>,
    loc |-> <<"c",".","p","y",":","3">>,
    lodash |-> <<"l","o","d","a","s","h">>,
    v1 |-> <<"1",".","0">>,
    v2 |-> <<"1",".","1">>,
    v3 |-> <<"1",".","2">>,
    proto |-> <<"P","r","o","t","o","t","y","p","e"," ","P","o","l","l","u","t","i","o","n">>,
    critical |-> <<"c","r","i","t","i","c","a","l">>,
    high |-> <<"h","i","g","h">>,
    low |-> <<"l","o","w">>,
    weird |-> <<"M","o","d","e","r","a","t","e">>,
    lone |-> <<"b","a","d"," ","<U+D800>">>,
    medium |-> <<"m","e","d","i","u","m">>,
    express |-> <<"e","x","p","r","e","s","s">>,
    v123 |-> <<"1",".","2",".","3">>,
    Note |-> <<"N","o","t","e">>,
    WARNING |-> <<"W","A","R","N","I","N","G">>,
    minor |-> <<"m","i","n","o","r">>,
    Blocker |-> <<"B","l","o","c","k","e","r">>,
    deep |-> <<"o","r","g",":","p","r","o","j",":","s","r","c","/","a",".","p","y">>,
    trailing |-> <<"p","r","o","j",":">>,
    v124 |-> <<"1",".","2",".","4">>,
    cve1 |-> <<"C","V","E","-","1">>,
    xss |-> <<"X","S","S">>,
    url |-> <<"h","t","t","p",":","/","/","h","/">>,
    sol |-> <<"E","n","c","o","d","e"," ","o","u","t","p","u","t">>,
    risk |-> <<"H","i","g","h"," ","(","M","e","d","i","u","m",")">>,
    conf |-> <<"M","e","d","i","u","m">>,
    cwe |-> <<"7","9">>,
    wasc |-> <<"8">> ]

(* String literals of hf_client_api.py. *)
ClientText ==
  [ success |-> <<"s","u","c","c","e","s","s">>,
    text |-> <<"t","e","x","t">>,
    json |-> <<"j","s","o","n">>,
    error |-> <<"e","r","r","o","r">>,
    lbrace |-> <<"{">>,
    rbrace |-> <<"}">> ]

(* The sample completions and error messages of the inference service. *)
Completion ==
  [ prose |-> <<"n","o"," ","p","o","l","i","c","y"," ","h","e","r","e">>,
    bare |-> <<"{","\"","a","\"",":"," ","1","}">>,
    wrapped |-> <<"S","u","r","e",":"," ","{","\"","a","\"",":"," ","1","}"," ","d","o","n","e">>,
    padded |-> <<" ","{","\"","a","\"",":"," ","1","}","\n">>,
    broken |-> <<"{","o","o","p","s","}">>,
    reversed |-> <<"}"," ","{">>,
    empty |-> <<>>,
    timeout |-> <<"t","i","m","e","d"," ","o","u","t">>,
    boom |-> <<"b","o","o","m">> ]

(* String literals of generate_policies.py (n1 and n2 are the constant pieces of parse_findings' f-string), and sample answers of the model. *)
PoliciesText ==
  [ response |-> <<"r","e","s","p","o","n","s","e">>,
    lbracket |-> <<"[">>,
    rbracket |-> <<"]">>,
    nl |-> <<"\n">>,
    n1 |-> <<"\n","\n","[",".",".","."," ">>,
    n2 |->
        <<" ","a","d","d","i","t","i","o","n","a","l"," ","l","i","n","e","s"," ","t","r","u",
          "n","c","a","t","e","d"," ","f","o","r"," ","b","r","e","v","i","t","y","]">>,
    fallback |->
        <<"\n","*","*","P","O","L","I","C","Y"," ","S","T","A","T","E","M","E","N","T","*","*",
          "\n","S","e","c","u","r","i","t","y"," ","v","u","l","n","e","r","a","b","i","l","i",
          "t","i","e","s"," ","h","a","v","e"," ","b","e","e","n"," ","i","d","e","n","t","i",
          "f","i","e","d"," ","a","n","d"," ","m","u","s","t"," ","b","e"," ","a","d","d","r",
          "e","s","s","e","d",".","\n","\n","*","*","S","C","O","P","E","*","*","\n","A","l",
          "l"," ","a","f","f","e","c","t","e","d"," ","s","y","s","t","e","m","s"," ","a","n",
          "d"," ","c","o","m","p","o","n","e","n","t","s",".","\n","\n","*","*","R","E","Q",
          "U","I","R","E","M","E","N","T","S","*","*","\n","-"," ","R","e","m","e","d","i","a",
          "t","e"," ","i","d","e","n","t","i","f","i","e","d"," ","v","u","l","n","e","r","a",
          "b","i","l","i","t","i","e","s","\n","-"," ","F","o","l","l","o","w"," ","s","e","c",
          "u","r","e"," ","c","o","d","i","n","g"," ","p","r","a","c","t","i","c","e","s","\n",
          "-"," ","I","m","p","l","e","m","e","n","t"," ","p","r","o","p","e","r"," ","i","n",
          "p","u","t"," ","v","a","l","i","d","a","t","i","o","n","\n","\n","*","*","I","M",
          "P","L","E","M","E","N","T","A","T","I","O","N","*","*","\n","D","e","v","e","l","o",
          "p","m","e","n","t"," ","t","e","a","m"," ","t","o"," ","r","e","v","i","e","w"," ",
          "a","n","d"," ","f","i","x"," ","i","s","s","u","e","s"," ","w","i","t","h","i","n",
          " ","S","L","A",".","\n">>,
    policy |-> <<"[","{","\"","i","d","\"",":"," ","1","}","]">>,
    chat |-> <<"H","e","r","e"," ","y","o","u"," ","g","o">>,
    model |-> <<"m","o","d","e","l">> ]

-----------------------------------------------------------------------------
(* Python strings. *)

Min(a, b) == IF a < b THEN a ELSE b

\* s[:n], n >= 0
Take(s, n) == SubSeq(s, 1, Min(n, Len(s)))

\* s[n:], n >= 0
Drop(s, n) == SubSeq(s, n + 1, Len(s))

\* c * n
Rep(c, n) == [i \in 1..n |-> c]

\* sub in s, for two strs
Contains(s, sub) ==
  \E i \in 0..(Len(s) - Len(sub)) : SubSeq(s, i + 1, i + Len(sub)) = sub

EndsWith(s, suffix) ==
  /\ Len(s) >= Len(suffix)
  /\ SubSeq(s, Len(s) - Len(suffix) + 1, Len(s)) = suffix

LowerCase == <<"a","b","c","d","e","f","g","h","i","j","k","l","m",
               "n","o","p","q","r","s","t","u","v","w","x","y","z">>
UpperCase == <<"A","B","C","D","E","F","G","H","I","J","K","L","M",
               "N","O","P","Q","R","S","T","U","V","W","X","Y","Z">>

\* str.upper(), on the ASCII letters
Upper(s) ==
  [i \in 1..Len(s) |->
     IF \E j \in 1..26 : LowerCase[j] = s[i]
       THEN UpperCase[CHOOSE j \in 1..26 : LowerCase[j] = s[i]]
       ELSE s[i]]

Whitespace == {" ", "\n", "\t", "\r"}

RECURSIVE LeadingWhitespace(_, _)
\* How many of the characters of s from the i-th on, going right, are
\* whitespace before one that is not.
LeadingWhitespace(s, i) ==
  IF i > Len(s) \/ s[i] \notin Whitespace THEN 0 ELSE 1 + LeadingWhitespace(s, i + 1)

RECURSIVE TrailingWhitespace(_, _)
\* The same from the i-th character on, going left.
TrailingWhitespace(s, i) ==
  IF i < 1 \/ s[i] \notin Whitespace THEN 0 ELSE 1 + TrailingWhitespace(s, i - 1)

\* str.strip()
Strip(s) == SubSeq(s, 1 + LeadingWhitespace(s, 1), Len(s) - TrailingWhitespace(s, Len(s)))

\* s.split(sep)[-1], sep one character: what follows the last sep
SplitLast(s, sep) ==
  LET at == {i \in 1..Len(s) : s[i] = sep}
  IN  IF at = {} THEN s
      ELSE Drop(s, CHOOSE i \in at : \A j \in at : i >= j)

Digits == <<"0","1","2","3","4","5","6","7","8","9">>

RECURSIVE NatStr(_)
NatStr(n) == IF n < 10 THEN <<Digits[n + 1]>>
             ELSE NatStr(n \div 10) \o <<Digits[(n % 10) + 1]>>

\* str(n) of an int
IntStr(n) == IF n < 0 THEN <<"-">> \o NatStr(0 - n) ELSE NatStr(n)

-----------------------------------------------------------------------------
(* Python values. *)

PyNone == [t |-> "null", s |-> <<>>, n |-> 0, k |-> <<>>, v |-> <<>>]
PyBool(b) == [t |-> "bool", s |-> <<>>, n |-> IF b THEN 1 ELSE 0, k |-> <<>>, v |-> <<>>]
PyInt(n) == [t |-> "int", s |-> <<>>, n |-> n, k |-> <<>>, v |-> <<>>]
PyStr(s) == [t |-> "str", s |-> s, n |-> 0, k |-> <<>>, v |-> <<>>]
PyList(items) == [t |-> "list", s |-> <<>>, n |-> 0, k |-> <<>>, v |-> items]
PyDict(keys, values) == [t |-> "dict", s |-> <<>>, n |-> 0, k |-> keys, v |-> values]

\* No reply from a service yet.
NoReply == [kind |-> "", status |-> 0, body |-> PyNone]

\* No language model is called.
NoCall ==
  /\ retries = 0
  /\ attempt = 0
  /\ calls = 0
  /\ sleeps = 0
  /\ reply = NoReply
  /\ returned = PyNone

IsStr(x) == x.t = "str"
IsList(x) == x.t = "list"
IsDict(x) == x.t = "dict"

\* bool(x)
Truthy(x) ==
  CASE x.t = "null" -> FALSE
    [] x.t = "bool" -> x.n = 1
    [] x.t = "int"  -> x.n # 0
    [] x.t = "str"  -> x.s # <<>>
    [] x.t = "list" -> x.v # <<>>
    [] x.t = "dict" -> x.k # <<>>

\* b in the place of a None only, as a.get(key, b) would give: not what
\* 'a or b' does
Or_for_none_only(a, b) == IF a = PyNone THEN b ELSE a

\* a or b
Or(a, b) == IF Truthy(a) THEN a ELSE b

\* key in d, for a dict d
HasKey(d, key) == \E i \in 1..Len(d.k) : d.k[i] = key

\* d.get(key, default), for a dict d
Get(d, key, default) ==
  IF HasKey(d, key) THEN d.v[CHOOSE i \in 1..Len(d.k) : d.k[i] = key] ELSE default

\* {**d, key: value}: a dict literal grown by one entry
Put(d, key, value) ==
  IF HasKey(d, key)
    THEN PyDict(d.k, [i \in 1..Len(d.k) |-> IF d.k[i] = key THEN value ELSE d.v[i]])
    ELSE PyDict(Append(d.k, key), Append(d.v, value))

Ok(x) == [exc |-> "", val |-> x]
Raise(e) == [exc |-> e, val |-> PyNone]

\* The statements after one that may raise: an exception of r propagates,
\* otherwise F goes on with r's value.
Then(r, F(_)) == IF r.exc # "" THEN r ELSE F(r.val)

\* The surrogate code points, by the ends of their two ranges: a str holds
\* one where the JSON text has a lone escape such as \ud800.
Surrogates == {"<U+D800>", "<U+DBFF>", "<U+DC00>", "<U+DFFF>"}

\* text.encode("utf-8"), strict: a surrogate cannot be encoded; the bytes of
\* any other text are kept as the text they decode to.
encode_utf8(text) ==
  IF \E i \in 1..Len(text) : text[i] \in Surrogates
    THEN Raise("UnicodeEncodeError")
    ELSE Ok(text)

\* `lit in x` for a str literal lit: substring of a str, element of a list, key
\* of a dict; any other x is not iterable
In(lit, x) ==
  CASE x.t = "str"  -> Ok(PyBool(Contains(x.s, lit)))
    [] x.t = "list" -> Ok(PyBool(\E i \in 1..Len(x.v) : x.v[i] = PyStr(lit)))
    [] x.t = "dict" -> Ok(PyBool(HasKey(x, lit)))
    [] OTHER        -> Raise("TypeError")

RECURSIVE Join(_, _)
\* sep.join(strs)
Join(sep, strs) ==
  IF strs = <<>> THEN <<>>
  ELSE IF Len(strs) = 1 THEN strs[1]
  ELSE strs[1] \o sep \o Join(sep, Tail(strs))

RECURSIVE Repr(_)
\* repr(x), for strs without quotes, backslashes or control characters
Repr(x) ==
  CASE x.t = "null" -> PyText.None
    [] x.t = "bool" -> IF x.n = 1 THEN PyText.True ELSE PyText.False
    [] x.t = "int"  -> IntStr(x.n)
    [] x.t = "str"  -> <<"'">> \o x.s \o <<"'">>
    [] x.t = "list" ->
         <<"[">> \o Join(<<",", " ">>, [i \in 1..Len(x.v) |-> Repr(x.v[i])]) \o <<"]">>
    [] x.t = "dict" ->
         <<"{">> \o Join(<<",", " ">>,
                         [i \in 1..Len(x.k) |->
                            <<"'">> \o x.k[i] \o <<"'", ":", " ">> \o Repr(x.v[i])])
         \o <<"}">>

\* f"{x}": str(x)
Format(x) == IF x.t = "str" THEN x.s ELSE Repr(x)

-----------------------------------------------------------------------------
(* The per-finding formatters.  Each returns [exc, val]: val is the block. *)

MAX_CHARS_PER_ITEM == 5000

\* d.strip(): only a str has strip()
StripOf(d) == IF IsStr(d) THEN Ok(PyStr(Strip(d.s))) ELSE Raise("AttributeError")

\* (v.get("description") or "").strip()
StripDescription(v) == StripOf(Or(Get(v, K.description, PyNone), PyStr(<<>>)))

\* parsast.py: the f-string of format_sast, before truncation
format_sast_text(v, idx) ==
  LET title == Or(Or(Get(v, K.title, PyNone), Get(v, K.id, PyNone)),
                  PyStr(ParsastText.SastFinding))
      loc   == Or(Get(v, K.location, PyNone), PyStr(ParsastText.NA))
      rec   == Or(Get(v, K.recommendation, PyNone), PyStr(ParsastText.NoRec))
  IN  Then(StripDescription(v), LAMBDA desc :
        Ok(PyStr(ParsastText.f1 \o IntStr(idx) \o ParsastText.f2 \o Format(title)
                 \o ParsastText.f3 \o Format(loc) \o ParsastText.f4 \o desc.s
                 \o ParsastText.f5 \o Format(rec) \o ParsastText.f6)))

\* format_sast with the ceiling itself taken as too long: not what line 25 does
format_sast_at_ceiling(v, idx) ==
  Then(format_sast_text(v, idx), LAMBDA text :
    IF Len(text.s) >= MAX_CHARS_PER_ITEM
      THEN Ok(PyStr(Take(text.s, MAX_CHARS_PER_ITEM - 12) \o ParsastText.truncated))
      ELSE Ok(text))

\* parsast.py: format_sast
format_sast(v, idx) ==
  Then(format_sast_text(v, idx), LAMBDA text :
    IF Len(text.s) > MAX_CHARS_PER_ITEM
      THEN Ok(PyStr(Take(text.s, MAX_CHARS_PER_ITEM - 12) \o ParsastText.truncated))
      ELSE Ok(text))

\* parsers/pardast.py: the f-string of format_dast, before truncation
format_dast_text(v, idx) ==
  LET title == Or(Or(Get(v, K.title, PyNone), Get(v, K.id, PyNone)),
                  PyStr(PardastText.DastFinding))
      uri   == Or(Get(v, K.location, PyNone), PyStr(PardastText.NA))
      rec   == Or(Get(v, K.recommendation, PyNone), PyStr(PardastText.DefaultRec))
  IN  Then(StripDescription(v), LAMBDA desc :
        Ok(PyStr(PardastText.f1 \o IntStr(idx) \o PardastText.f2 \o Format(title)
                 \o PardastText.f3 \o Format(uri) \o PardastText.f4 \o desc.s
                 \o PardastText.f5 \o Format(rec) \o PardastText.f6)))

\* parsers/pardast.py: format_dast
format_dast(v, idx) ==
  Then(format_dast_text(v, idx), LAMBDA text :
    IF Len(text.s) > MAX_CHARS_PER_ITEM
      THEN Ok(PyStr(Take(text.s, MAX_CHARS_PER_ITEM - 12) \o PardastText.truncated))
      ELSE Ok(text))

\* dast/pardast.py, format_dast: the "CWE ID: " and "WASC ID: " lines
zap_id_line(label, id) ==
  IF Truthy(id) /\ id # PyStr(ZapText.NA) THEN label \o Format(id) \o ZapText.nl ELSE <<>>

\* dast/pardast.py: the text of format_dast (the f-string and the CWE/WASC
\* lines), before truncation
zap_format_dast_text(v, idx) ==
  LET title == Or(Or(Get(v, K.title, PyNone), Get(v, K.id, PyNone)),
                  PyStr(ZapText.DastFinding))
      uri   == Or(Get(v, K.location, PyNone), PyStr(ZapText.NA))
      rec   == Or(Get(v, K.recommendation, PyNone), PyStr(ZapText.DefaultRec))
      severity   == Get(v, K.severity, PyStr(ZapText.Unknown))
      confidence == Get(v, K.confidence, PyStr(ZapText.Unknown))
  IN  Then(StripDescription(v), LAMBDA desc :
        Ok(PyStr(ZapText.f1 \o IntStr(idx) \o ZapText.f2 \o Format(title)
                 \o ZapText.f3 \o Format(severity) \o ZapText.f4 \o Format(confidence)
                 \o ZapText.f5 \o Format(uri) \o ZapText.f6 \o desc.s
                 \o ZapText.f7 \o Format(rec) \o ZapText.f8
                 \o zap_id_line(ZapText.cwe, Get(v, K.cweid, PyNone))
                 \o zap_id_line(ZapText.wasc, Get(v, K.wascid, PyNone)))))

\* dast/pardast.py: format_dast
zap_format_dast(v, idx) ==
  Then(zap_format_dast_text(v, idx), LAMBDA text :
    IF Len(text.s) > MAX_CHARS_PER_ITEM
      THEN Ok(PyStr(Take(text.s, MAX_CHARS_PER_ITEM - 12) \o ZapText.truncated))
      ELSE Ok(text))

\* parsca.py: severity_emoji.get(severity, '-')
severity_emoji(severity) ==
  CASE severity = PyStr(ParscaText.CRITICAL) -> ParscaText.e4
    [] severity = PyStr(ParscaText.HIGH)     -> ParscaText.e3
    [] severity = PyStr(ParscaText.MEDIUM)   -> ParscaText.e2
    [] severity = PyStr(ParscaText.LOW)      -> ParscaText.e1
    [] OTHER                                 -> ParscaText.e0

\* v[key]
Item(v, key) == IF HasKey(v, key) THEN Ok(Get(v, key, PyNone)) ELSE Raise("KeyError")

\* str(cvss) if cvss is not None else 'N/A'
cvss_str(cvss) == IF cvss # PyNone THEN Format(cvss) ELSE ParscaText.NA

\* parsca.py: format_sca_simple; a list or a dict cannot be looked up in
\* severity_emoji
format_sca_simple(v, idx) ==
  Then(Item(v, K.severity), LAMBDA severity :
    IF severity.t \in {"list", "dict"} THEN Raise("TypeError")
    ELSE
  Then(Item(v, K.cvss), LAMBDA cvss :
  Then(Item(v, K.package), LAMBDA package :
  Then(Item(v, K.current_version), LAMBDA current_version :
  Then(Item(v, K.recommended_version), LAMBDA recommended_version :
  Then(Item(v, K.title), LAMBDA title :
  Then(Item(v, K.cve), LAMBDA cve :
    Ok(PyStr(ParscaText.f1 \o IntStr(idx) \o ParscaText.f2 \o severity_emoji(severity)
             \o ParscaText.f3 \o Format(severity)
             \o ParscaText.f4 \o Format(package)
             \o ParscaText.f5 \o Format(current_version)
             \o ParscaText.f6 \o Format(recommended_version)
             \o ParscaText.f7 \o Format(title)
             \o ParscaText.f8 \o Format(cve)
             \o ParscaText.f9 \o cvss_str(cvss) \o ParscaText.f10)))))))))

-----------------------------------------------------------------------------
(* Iteration and subscripting, as the parsers use them. *)

\* for item in x: the items of a list, the characters of a str, the keys of a
\* dict; anything else is not iterable
Iter(x) ==
  CASE x.t = "list" -> Ok(x.v)
    [] x.t = "str"  -> Ok([i \in 1..Len(x.s) |-> PyStr(<<x.s[i]>>)])
    [] x.t = "dict" -> Ok([i \in 1..Len(x.k) |-> PyStr(x.k[i])])
    [] OTHER        -> Raise("TypeError")

\* x[0]
Subscript0(x) ==
  CASE x.t = "list" -> IF x.v = <<>> THEN Raise("IndexError") ELSE Ok(x.v[1])
    [] x.t = "str"  -> IF x.s = <<>> THEN Raise("IndexError") ELSE Ok(PyStr(<<x.s[1]>>))
    [] x.t = "dict" -> Raise("KeyError")
    [] OTHER        -> Raise("TypeError")

\* x.get(key, default): only a dict has get()
GetAttr(x, key, default) ==
  IF IsDict(x) THEN Ok(Get(x, key, default)) ELSE Raise("AttributeError")

\* As UpperOf, but the case is left as it is.
UpperOf_keeping_case(x) == IF IsStr(x) THEN Ok(x) ELSE Raise("AttributeError")

\* x.upper(): only a str has upper()
UpperOf(x) == IF IsStr(x) THEN Ok(PyStr(Upper(x.s))) ELSE Raise("AttributeError")

\* f"{file_path}:{line}" if line else file_path
FileLine(file_path, line) ==
  IF Truthy(line)
    THEN PyStr(Format(file_path) \o ParserInputText.colon \o Format(line))
    ELSE file_path

-----------------------------------------------------------------------------
(* parser_input.py *)

\* As sonarqube_file_path, but the whole component is the file path.
sonarqube_file_path_whole_component(component) == Ok(component)

\* component.split(':')[-1] if ':' in component else component; only a str
\* has split()
sonarqube_file_path(component) ==
  Then(In(ParserInputText.colon, component), LAMBDA has_colon :
    IF ~Truthy(has_colon) THEN Ok(component)
    ELSE IF IsStr(component) THEN Ok(PyStr(SplitLast(component.s, ":")))
    ELSE Raise("AttributeError"))

\* parse_sonarqube: the body of the loop, for one issue
sonarqube_issue(issue) ==
  Then(GetAttr(issue, K.component, PyStr(<<>>)), LAMBDA component :
  Then(sonarqube_file_path(component), LAMBDA file_path :
    Ok(PyDict(
      <<K.type, K.id, K.title, K.description, K.severity, K.location, K.file,
        K.line, K.rule, K.recommendation>>,
      <<PyStr(ParserInputText.SAST),
        Get(issue, K.key, PyStr(ParserInputText.NA)),
        Get(issue, K.message, PyStr(ParserInputText.NoTitle)),
        Get(issue, K.message, PyStr(ParserInputText.NoDescription)),
        Get(issue, K.severity, PyStr(ParserInputText.UNKNOWN)),
        FileLine(file_path, Get(issue, K.line, PyInt(0))),
        file_path,
        Get(issue, K.line, PyInt(0)),
        Get(issue, K.rule, PyStr(ParserInputText.NA)),
        PyStr(ParserInputText.Fix
              \o Format(Get(issue, K.rule, PyStr(ParserInputText.thisIssue)))
              \o ParserInputText.ReferSonar)>>))))

RECURSIVE sonarqube_loop_prepending(_, _)
\* The loop with insert(0, ...) for append: not what line 53 does
sonarqube_loop_prepending(vulnerabilities, issues) ==
  IF issues = <<>> THEN Ok(PyList(vulnerabilities))
  ELSE Then(sonarqube_issue(Head(issues)), LAMBDA vuln :
         sonarqube_loop_prepending(<<vuln>> \o vulnerabilities, Tail(issues)))

RECURSIVE sonarqube_loop(_, _)
\* parse_sonarqube: the loop, appending one finding per issue
sonarqube_loop(vulnerabilities, issues) ==
  IF issues = <<>> THEN Ok(PyList(vulnerabilities))
  ELSE Then(sonarqube_issue(Head(issues)), LAMBDA vuln :
         sonarqube_loop(Append(vulnerabilities, vuln), Tail(issues)))

parse_sonarqube(data) ==
  Then(GetAttr(data, K.issues, PyList(<<>>)), LAMBDA issues :
  Then(Iter(issues), LAMBDA items :
    sonarqube_loop(<<>>, items)))

\* The location read from locations[-1] for locations[0]: not what line 65
\* does
sarif_location_of_last(result) ==
  Then(GetAttr(result, K.locations, PyList(<<PyDict(<<>>, <<>>)>>)), LAMBDA locations :
    IF ~Truthy(locations)
      THEN Ok(<<PyStr(ParserInputText.Unknown), PyStr(ParserInputText.Unknown), PyInt(0)>>)
    ELSE
  Then(Subscript0(PyList(<<locations.v[Len(locations.v)]>>)), LAMBDA last :
  Then(GetAttr(last, K.physicalLocation, PyDict(<<>>, <<>>)), LAMBDA physical :
  Then(GetAttr(physical, K.artifactLocation, PyDict(<<>>, <<>>)), LAMBDA artifact :
  Then(GetAttr(physical, K.region, PyDict(<<>>, <<>>)), LAMBDA region :
  Then(GetAttr(artifact, K.uri, PyStr(ParserInputText.Unknown)), LAMBDA file_path :
  Then(GetAttr(region, K.startLine, PyInt(0)), LAMBDA line :
    Ok(<<FileLine(file_path, line), file_path, line>>))))))))

\* parse_sarif, lines 63-75: <<location, file_path, line>> of one result
sarif_location(result) ==
  Then(GetAttr(result, K.locations, PyList(<<PyDict(<<>>, <<>>)>>)), LAMBDA locations :
    IF ~Truthy(locations)
      THEN Ok(<<PyStr(ParserInputText.Unknown), PyStr(ParserInputText.Unknown), PyInt(0)>>)
    ELSE
  Then(Subscript0(locations), LAMBDA first :
  Then(GetAttr(first, K.physicalLocation, PyDict(<<>>, <<>>)), LAMBDA physical :
  Then(GetAttr(physical, K.artifactLocation, PyDict(<<>>, <<>>)), LAMBDA artifact :
  Then(GetAttr(physical, K.region, PyDict(<<>>, <<>>)), LAMBDA region :
  Then(GetAttr(artifact, K.uri, PyStr(ParserInputText.Unknown)), LAMBDA file_path :
  Then(GetAttr(region, K.startLine, PyInt(0)), LAMBDA line :
    Ok(<<FileLine(file_path, line), file_path, line>>))))))))

\* parse_sarif: the body of the inner loop, for one result
sarif_result(result) ==
  Then(sarif_location(result), LAMBDA where :
  Then(GetAttr(Get(result, K.message, PyDict(<<>>, <<>>)), K.text,
               PyStr(ParserInputText.NoTitle)), LAMBDA title :
  Then(UpperOf(Get(result, K.level, PyStr(ParserInputText.warning))), LAMBDA severity :
    Ok(PyDict(
      <<K.type, K.id, K.title, K.description, K.severity, K.location, K.file,
        K.line, K.rule, K.recommendation>>,
      <<PyStr(ParserInputText.SAST),
        Get(result, K.ruleId, PyStr(ParserInputText.NA)),
        title,
        title,
        severity,
        where[1],
        where[2],
        where[3],
        Get(result, K.ruleId, PyStr(ParserInputText.NA)),
        PyStr(ParserInputText.ReviewAndFix
              \o Format(Get(result, K.ruleId, PyStr(ParserInputText.NA))))>>)))))

RECURSIVE sarif_results_loop(_, _)
\* parse_sarif: the inner loop, over the results of one run
sarif_results_loop(vulnerabilities, results) ==
  IF results = <<>> THEN Ok(vulnerabilities)
  ELSE Then(sarif_result(Head(results)), LAMBDA vuln :
         sarif_results_loop(Append(vulnerabilities, vuln), Tail(results)))

RECURSIVE sarif_runs_loop(_, _)
\* parse_sarif: the outer loop, over the runs
sarif_runs_loop(vulnerabilities, runs) ==
  IF runs = <<>> THEN Ok(PyList(vulnerabilities))
  ELSE Then(GetAttr(Head(runs), K.results, PyList(<<>>)), LAMBDA results :
       Then(Iter(results), LAMBDA items :
       Then(sarif_results_loop(vulnerabilities, items), LAMBDA grown :
         sarif_runs_loop(grown, Tail(runs)))))

parse_sarif(data) ==
  Then(GetAttr(data, K.runs, PyList(<<>>)), LAMBDA runs :
  Then(Iter(runs), LAMBDA items :
    sarif_runs_loop(<<>>, items)))

\* parse_generic: the finding built from one dict element
generic_item(item) ==
  PyDict(
    <<K.type, K.id, K.title, K.description, K.severity, K.location, K.recommendation>>,
    <<PyStr(ParserInputText.SAST),
      Get(item, K.id, PyStr(ParserInputText.NA)),
      Or(Get(item, K.title, PyNone), Get(item, K.message, PyStr(ParserInputText.NoTitle))),
      Or(Get(item, K.description, PyNone),
         Get(item, K.message, PyStr(ParserInputText.NoDescription))),
      Get(item, K.severity, PyStr(ParserInputText.UNKNOWN)),
      Or(Get(item, K.location, PyNone), Get(item, K.file, PyStr(ParserInputText.Unknown))),
      Get(item, K.recommendation, PyStr(ParserInputText.ReviewThis))>>)

RECURSIVE generic_items_loop_taking_all(_, _)
\* As generic_items_loop, without the isinstance test of line 106
generic_items_loop_taking_all(vulnerabilities, items) ==
  IF items = <<>> THEN vulnerabilities
  ELSE generic_items_loop_taking_all(Append(vulnerabilities, generic_item(Head(items))),
                                     Tail(items))

RECURSIVE generic_items_loop(_, _)
\* parse_generic: the loop over the elements of one list value
generic_items_loop(vulnerabilities, items) ==
  IF items = <<>> THEN vulnerabilities
  ELSE IF IsDict(Head(items))
    THEN generic_items_loop(Append(vulnerabilities, generic_item(Head(items))), Tail(items))
    ELSE generic_items_loop(vulnerabilities, Tail(items))

RECURSIVE generic_values_loop(_, _)
\* parse_generic: the loop over data.items()
generic_values_loop(vulnerabilities, values) ==
  IF values = <<>> THEN vulnerabilities
  ELSE IF IsList(Head(values))
    THEN generic_values_loop(generic_items_loop(vulnerabilities, Head(values).v),
                             Tail(values))
    ELSE generic_values_loop(vulnerabilities, Tail(values))

parse_generic(data) ==
  IF IsDict(data) THEN Ok(PyList(generic_values_loop(<<>>, data.v)))
  ELSE Ok(PyList(<<>>))

\* parse_report, line 24: '$schema' in data and 'sarif' in data.get('$schema', '')
schema_is_sarif(data) ==
  Then(In(K.schema, data), LAMBDA has_schema :
    IF ~Truthy(has_schema) THEN Ok(has_schema)
    ELSE Then(GetAttr(data, K.schema, PyStr(<<>>)), LAMBDA schema : In(K.sarif, schema)))

\* parse_report, lines 22-29: the dialect whose parser is called
detect(data) ==
  Then(In(K.issues, data), LAMBDA has_issues :
    IF Truthy(has_issues) THEN Ok("sonarqube")
    ELSE
  Then(schema_is_sarif(data), LAMBDA is_sarif :
    IF Truthy(is_sarif) THEN Ok("sarif")
    ELSE
  Then(In(K.runs, data), LAMBDA has_runs :
    IF Truthy(has_runs) THEN Ok("sarif") ELSE Ok("generic"))))

\* A parser's result, with the dialect that was detected.
WithDialect(r, name) == [exc |-> r.exc, val |-> r.val, dialect |-> name]

\* parse_report, lines 22-29: the parser of the dialect found is called
dispatch(data, found) ==
  IF found.exc # "" THEN WithDialect(found, "")
  ELSE CASE found.val = "sonarqube" -> WithDialect(parse_sonarqube(data), "sonarqube")
         [] found.val = "sarif"     -> WithDialect(parse_sarif(data), "sarif")
         [] found.val = "generic"   -> WithDialect(parse_generic(data), "generic")

\* parse_report: [exc, val, dialect], for the report file f
parse_report(f) ==
  IF f.state = "missing" THEN WithDialect(Raise("FileNotFoundError"), "")
  ELSE IF f.state = "invalid" THEN WithDialect(Raise("JSONDecodeError"), "")
  ELSE dispatch(f.data, detect(f.data))

-----------------------------------------------------------------------------
(* parsca.py *)

RECURSIVE upgrade_path_scan_from_start(_)
\* The loop over upgrade_path without reversed(): not what line 56 does
upgrade_path_scan_from_start(versions) ==
  IF versions = <<>> THEN PyStr(ParscaText.NoFix)
  ELSE IF Truthy(Head(versions)) /\ Head(versions) # PyBool(FALSE) THEN Head(versions)
  ELSE upgrade_path_scan_from_start(Tail(versions))

RECURSIVE upgrade_path_scan(_)
\* get_fixed_version: the loop over reversed(upgrade_path); versions is the
\* part of the path not looked at yet, scanned from its end
upgrade_path_scan(versions) ==
  IF versions = <<>> THEN PyStr(ParscaText.NoFix)
  ELSE IF Truthy(versions[Len(versions)]) /\ versions[Len(versions)] # PyBool(FALSE)
    THEN versions[Len(versions)]
    ELSE upgrade_path_scan(SubSeq(versions, 1, Len(versions) - 1))

\* get_fixed_version; reversed() takes a list, a str or a dict
get_fixed_version(vuln) ==
  IF Truthy(Get(vuln, K.fixedIn, PyNone)) THEN Subscript0(Get(vuln, K.fixedIn, PyNone))
  ELSE Then(Iter(Get(vuln, K.upgradePath, PyList(<<>>))), LAMBDA upgrade_path :
         Ok(upgrade_path_scan(upgrade_path)))

\* The 'cve' entry read as v['identifiers']['CVE'][0], without the defaults of
\* line 35: not what the source does
snyk_cve_subscripting(v) ==
  Then(Item(v, K.identifiers), LAMBDA identifiers :
  Then(Item(identifiers, K.CVE), LAMBDA cve_list :
    Subscript0(cve_list)))

\* parse_snyk_report: the 'cve' entry of one finding
snyk_cve(v) ==
  Then(GetAttr(Get(v, K.identifiers, PyDict(<<>>, <<>>)), K.CVE, PyNone), LAMBDA cve_list :
    IF Truthy(cve_list) THEN Subscript0(cve_list) ELSE Ok(PyStr(ParscaText.NA)))

\* parse_snyk_report: the body of the loop, for one vulnerability
snyk_vulnerability(v) ==
  Then(GetAttr(v, K.packageName, PyStr(ParscaText.unknown)), LAMBDA pkg_name :
  Then(get_fixed_version(v), LAMBDA recommended_version :
  Then(UpperOf(Get(v, K.severity, PyStr(ParscaText.unknown))), LAMBDA severity :
  Then(snyk_cve(v), LAMBDA cve :
    Ok(PyDict(
      <<K.package, K.current_version, K.recommended_version, K.title, K.severity,
        K.cve, K.cvss>>,
      <<pkg_name,
        Get(v, K.version, PyStr(ParscaText.unknown)),
        recommended_version,
        Get(v, K.title, PyStr(ParscaText.NoTitle)),
        severity,
        cve,
        Get(v, K.cvssScore, PyNone)>>))))))

RECURSIVE snyk_loop(_, _)
\* parse_snyk_report: the loop, appending one finding per vulnerability
snyk_loop(vulnerabilities, snyk_vulns) ==
  IF snyk_vulns = <<>> THEN Ok(PyList(vulnerabilities))
  ELSE Then(snyk_vulnerability(Head(snyk_vulns)), LAMBDA vuln :
         snyk_loop(Append(vulnerabilities, vuln), Tail(snyk_vulns)))

\* parse_snyk_report without its two except clauses: not what lines 41-46 do
parse_snyk_report_catching_nothing(f) ==
  IF f.state = "missing" THEN Raise("FileNotFoundError")
  ELSE IF f.state = "invalid" THEN Raise("JSONDecodeError")
  ELSE Then(GetAttr(f.data, K.vulnerabilities, PyList(<<>>)), LAMBDA snyk_vulns :
       Then(Iter(snyk_vulns), LAMBDA items :
         snyk_loop(<<>>, items)))

\* parse_snyk_report: FileNotFoundError and JSONDecodeError are caught and give
\* [], every other exception leaves the function
parse_snyk_report(f) ==
  IF f.state \in {"missing", "invalid"} THEN Ok(PyList(<<>>))
  ELSE Then(GetAttr(f.data, K.vulnerabilities, PyList(<<>>)), LAMBDA snyk_vulns :
       Then(Iter(snyk_vulns), LAMBDA items :
         snyk_loop(<<>>, items)))

\* prepare_sca_text: severity_order.get(severity, 4)
severity_rank(severity) ==
  CASE severity = PyStr(ParscaText.CRITICAL) -> 0
    [] severity = PyStr(ParscaText.HIGH)     -> 1
    [] severity = PyStr(ParscaText.MEDIUM)   -> 2
    [] severity = PyStr(ParscaText.LOW)      -> 3
    [] OTHER                                 -> 4

\* prepare_sca_text: the sort key of a finding
severity_order(x) == severity_rank(Get(x, K.severity, PyNone))

RECURSIVE sort_insert_before_equals(_, _)
\* A sort step that puts x before the elements of its own rank: not what the
\* stable list.sort of line 116 does
sort_insert_before_equals(sorted, x) ==
  IF sorted = <<>> THEN <<x>>
  ELSE IF severity_order(sorted[Len(sorted)]) < severity_order(x) THEN Append(sorted, x)
  ELSE Append(sort_insert_before_equals(SubSeq(sorted, 1, Len(sorted) - 1), x),
              sorted[Len(sorted)])

RECURSIVE sort_insert(_, _)
\* One step of a stable sort: x goes after every element whose rank is not
\* greater than its own.
sort_insert(sorted, x) ==
  IF sorted = <<>> THEN <<x>>
  ELSE IF severity_order(sorted[Len(sorted)]) <= severity_order(x) THEN Append(sorted, x)
  ELSE Append(sort_insert(SubSeq(sorted, 1, Len(sorted) - 1), x), sorted[Len(sorted)])

RECURSIVE sort_by_severity(_, _)
\* prepare_sca_text: vulns.sort(key=...), a stable sort
sort_by_severity(sorted, rest) ==
  IF rest = <<>> THEN sorted
  ELSE sort_by_severity(sort_insert(sorted, Head(rest)), Tail(rest))

\* severity_counts with every severity outside the four tiers counted as LOW.
\* Not what 'if severity in severity_counts' does.
severity_count_others_as_low(findings, tier) ==
  Cardinality({i \in 1..Len(findings) :
    \/ Get(findings[i], K.severity, PyNone) = PyStr(tier)
    \/ /\ tier = ParscaText.LOW
       /\ Get(findings[i], K.severity, PyNone) \notin
            {PyStr(ParscaText.CRITICAL), PyStr(ParscaText.HIGH), PyStr(ParscaText.MEDIUM),
             PyStr(ParscaText.LOW)}})

\* generate_summary: severity_counts[tier], over the findings
severity_count(findings, tier) ==
  Cardinality({i \in 1..Len(findings) : Get(findings[i], K.severity, PyNone) = PyStr(tier)})

generate_summary(findings) ==
  ParscaText.rule \o ParscaText.sumTitle \o ParscaText.rule
  \o ParscaText.sumTotal \o IntStr(Len(findings)) \o ParscaText.nl
  \o ParscaText.sumCritical \o IntStr(severity_count(findings, ParscaText.CRITICAL))
  \o ParscaText.nl
  \o ParscaText.sumHigh \o IntStr(severity_count(findings, ParscaText.HIGH)) \o ParscaText.nl
  \o ParscaText.sumMedium \o IntStr(severity_count(findings, ParscaText.MEDIUM))
  \o ParscaText.nl
  \o ParscaText.sumLow \o IntStr(severity_count(findings, ParscaText.LOW)) \o ParscaText.nl
  \o ParscaText.ruleEnd

-----------------------------------------------------------------------------
(* dast/pardast.py *)

\* parse_zap_json: the 'location' entry of one finding
zap_location(alert) ==
  IF ~Truthy(Get(alert, K.instances, PyNone)) THEN Ok(PyStr(ZapText.NA))
  ELSE Then(Subscript0(Get(alert, K.instances, PyNone)), LAMBDA first :
         GetAttr(first, K.uri, PyStr(ZapText.NA)))

\* parse_zap_json: the body of the inner loop, for one alert
zap_alert(alert) ==
  Then(GetAttr(alert, K.alert, PyStr(ZapText.UnknownVuln)), LAMBDA title :
  Then(zap_location(alert), LAMBDA location :
    Ok(PyDict(
      <<K.type, K.title, K.description, K.location, K.recommendation, K.severity,
        K.confidence, K.cweid, K.wascid>>,
      <<PyStr(ZapText.DAST),
        title,
        Get(alert, K.desc, PyStr(<<>>)),
        location,
        Get(alert, K.solution, PyStr(ZapText.DefaultRec)),
        Get(alert, K.riskdesc, PyStr(ZapText.Unknown)),
        Get(alert, K.confidence, PyStr(ZapText.Unknown)),
        Get(alert, K.cweid, PyStr(ZapText.NA)),
        Get(alert, K.wascid, PyStr(ZapText.NA))>>))))

RECURSIVE zap_alerts_loop(_, _)
\* parse_zap_json: the inner loop, over the alerts of one site
zap_alerts_loop(found, alerts) ==
  IF alerts = <<>> THEN Ok(found)
  ELSE Then(zap_alert(Head(alerts)), LAMBDA vuln :
         zap_alerts_loop(Append(found, vuln), Tail(alerts)))

RECURSIVE zap_sites_loop(_, _)
\* parse_zap_json: the outer loop, over the sites
zap_sites_loop(found, sites) ==
  IF sites = <<>> THEN Ok(PyList(found))
  ELSE Then(GetAttr(Head(sites), K.alerts, PyList(<<>>)), LAMBDA alerts :
       Then(Iter(alerts), LAMBDA items :
       Then(zap_alerts_loop(found, items), LAMBDA grown :
         zap_sites_loop(grown, Tail(sites)))))

\* parse_zap_json: any exception of open() or json.load() is caught and gives
\* [], an exception of the loops leaves the function
parse_zap_json(f) ==
  IF f.state \in {"missing", "invalid"} THEN Ok(PyList(<<>>))
  ELSE Then(GetAttr(f.data, K.site, PyList(<<>>)), LAMBDA sites :
       Then(Iter(sites), LAMBDA items :
         zap_sites_loop(<<>>, items)))

-----------------------------------------------------------------------------
(* The prepare_*_text functions: parse, render, write. *)

Tools == {"sast", "dastpr", "sca", "zap"}

\* The parser of an entry point, were its list to outlive the call (as a
\* default argument vulnerabilities=[] would): the findings of the earlier run
\* come first. Not what 'vulnerabilities = []' in the body of each parser does.
parse_into_kept_list(t, f) ==
  LET r == CASE t \in {"sast", "dastpr"} -> parse_report(f)
             [] t = "sca" -> WithDialect(parse_snyk_report(f), "")
             [] t = "zap" -> WithDialect(parse_zap_json(f), "")
  IN  IF r.exc # "" THEN r ELSE [r EXCEPT !.val = PyList(vulns \o r.val.v)]

\* The parser each entry point calls, as [exc, val, dialect].
parse(t, f) ==
  CASE t \in {"sast", "dastpr"} -> parse_report(f)
    [] t = "sca" -> WithDialect(parse_snyk_report(f), "")
    [] t = "zap" -> WithDialect(parse_zap_json(f), "")

\* The formatter of an entry point with the indexes counted from 0, as
\* enumerate(findings) would give them. Not what enumerate(findings, 1) does.
format_counting_from_zero(t, v, idx) ==
  CASE t = "sast"   -> format_sast(v, idx - 1)
    [] t = "dastpr" -> format_dast(v, idx - 1)
    [] t = "sca"    -> format_sca_simple(v, idx - 1)
    [] t = "zap"    -> zap_format_dast(v, idx - 1)

\* The formatter each entry point calls on one finding.
format(t, v, idx) ==
  CASE t = "sast"   -> format_sast(v, idx)
    [] t = "dastpr" -> format_dast(v, idx)
    [] t = "sca"    -> format_sca_simple(v, idx)
    [] t = "zap"    -> zap_format_dast(v, idx)

RECURSIVE format_loop(_, _, _, _)
\* for i, v in enumerate(findings, 1): parts.append(format(v, i)); the blocks
\* rendered so far are in done
format_loop(t, done, findings, i) ==
  IF findings = <<>> THEN Ok(done)
  ELSE Then(format(t, Head(findings), i), LAMBDA text :
         format_loop(t, Append(done, text.s), Tail(findings), i + 1))

RECURSIVE of_type(_, _)
\* [v for v in vulns if v.get("type") == kind]
of_type(findings, kind) ==
  IF findings = <<>> THEN <<>>
  ELSE IF Get(Head(findings), K.type, PyNone) = PyStr(kind)
    THEN <<Head(findings)>> \o of_type(Tail(findings), kind)
    ELSE of_type(Tail(findings), kind)

RECURSIVE join_blocks(_)
\* "".join(parts), for the parts appended by the loop: each block, then "\n"
join_blocks(bs) ==
  IF bs = <<>> THEN <<>> ELSE Head(bs) \o <<"\n">> \o join_blocks(Tail(bs))

\* What a prepare_*_text has when it comes to write: the findings list, the
\* blocks and the text.
Rendered(findings, bs, text) == Ok([vulns |-> findings, blocks |-> bs, output |-> text])

\* prepare_sast_text, lines 31-39
render_sast(findings) ==
  Then(format_loop("sast", <<>>, of_type(findings, ParsastText.SAST), 1), LAMBDA done :
    Rendered(findings, done,
             IF of_type(findings, ParsastText.SAST) = <<>>
               THEN ParsastText.header \o ParsastText.none
               ELSE ParsastText.header \o join_blocks(done)))

\* parsers/pardast.py, prepare_dast_text, lines 30-39
render_dast(findings) ==
  Then(format_loop("dastpr", <<>>, of_type(findings, PardastText.DAST), 1), LAMBDA done :
    Rendered(findings, done,
             IF of_type(findings, PardastText.DAST) = <<>>
               THEN PardastText.header \o PardastText.none
               ELSE PardastText.header \o join_blocks(done)))

\* prepare_sca_text, lines 114-125, for the sorted list
render_sca_sorted(sorted) ==
  Then(format_loop("sca", <<>>, sorted, 1), LAMBDA done :
    Rendered(sorted, done, generate_summary(sorted) \o join_blocks(done)))

\* prepare_sca_text with nothing written for an empty list: not what lines
\* 111-112 do
render_sca_nothing_for_empty(findings) ==
  IF findings = <<>> THEN Rendered(findings, <<>>, <<>>)
  ELSE render_sca_sorted(sort_by_severity(<<>>, findings))

\* prepare_sca_text, lines 111-125; vulns.sort() sorts the list in place
render_sca(findings) ==
  IF findings = <<>> THEN Rendered(findings, <<>>, ParscaText.none)
  ELSE render_sca_sorted(sort_by_severity(<<>>, findings))

\* dast/pardast.py, prepare_dast_text, lines 80-92
render_zap(findings) ==
  Then(format_loop("zap", <<>>, findings, 1), LAMBDA done :
    Rendered(findings, done,
             IF findings = <<>>
               THEN ZapText.header \o ZapText.none1 \o ZapText.none2
               ELSE ZapText.header \o ZapText.total \o IntStr(Len(findings))
                    \o ZapText.nlnl \o join_blocks(done)))

render(t, findings) ==
  CASE t = "sast"   -> render_sast(findings)
    [] t = "dastpr" -> render_dast(findings)
    [] t = "sca"    -> render_sca(findings)
    [] t = "zap"    -> render_zap(findings)

-----------------------------------------------------------------------------
(* One run of an entry point. *)

NoFile == [written |-> FALSE, text |-> <<>>]

\* __main__: too few arguments end the run with status 1; dast/pardast.py also
\* ends it with status 1 when the report file does not exist
Main ==
  /\ pc = "main"
  /\ IF ~argv_ok \/ (tool = "zap" /\ file.state = "missing")
       THEN pc' = "exit" /\ exitcode' = 1
       ELSE pc' = "parse" /\ UNCHANGED exitcode
  /\ UNCHANGED <<tool, argv_ok, file, vulns, dialect, blocks, output, outfile, exc>>
  /\ UNCHANGED call_vars

\* The parser has returned r.
Parsed(r) ==
  IF r.exc # ""
    THEN /\ pc' = "exit" /\ exc' = r.exc /\ exitcode' = 1
         /\ dialect' = r.dialect
         /\ UNCHANGED vulns
    ELSE /\ pc' = "render" /\ vulns' = r.val.v /\ dialect' = r.dialect
         /\ UNCHANGED <<exc, exitcode>>

\* prepare_*_text, first line: the parser runs; an exception it raises is
\* caught nowhere and ends the run with a traceback and status 1
Parse ==
  /\ pc = "parse"
  /\ Parsed(parse(tool, file))
  /\ UNCHANGED <<tool, argv_ok, file, blocks, output, outfile>>
  /\ UNCHANGED call_vars

\* The rendering has ended as r.
RenderedAs(r) ==
  IF r.exc # ""
    THEN /\ pc' = "exit" /\ exc' = r.exc /\ exitcode' = 1
         /\ UNCHANGED <<vulns, blocks, output>>
    ELSE /\ pc' = "write" /\ vulns' = r.val.vulns /\ blocks' = r.val.blocks
         /\ output' = r.val.output
         /\ UNCHANGED <<exc, exitcode>>

\* prepare_*_text: the findings are filtered (sorted, for SCA) and rendered into
\* parts; an exception of a formatter ends the run with status 1
Render ==
  /\ pc = "render"
  /\ RenderedAs(render(tool, vulns))
  /\ UNCHANGED <<tool, argv_ok, file, dialect, outfile>>
  /\ UNCHANGED call_vars

\* Path(out_path).write_text(text, encoding="utf-8"), as [exc, val] with val
\* the file the call leaves: open(mode="w") creates the file or empties it,
\* then the text is encoded and written in one piece; when the encoding raises
\* the file is left empty.
write_text(text) ==
  IF encode_utf8(text).exc # ""
    THEN [exc |-> encode_utf8(text).exc, val |-> [written |-> TRUE, text |-> <<>>]]
    ELSE [exc |-> "", val |-> [written |-> TRUE, text |-> encode_utf8(text).val]]

\* prepare_*_text, last lines: the parent directory is made, the text is written
\* in one write_text call, and the run ends with status 0; an exception of
\* write_text ends it with a traceback and status 1
Write ==
  /\ pc = "write"
  /\ outfile' = write_text(output).val
  /\ exc' = write_text(output).exc
  /\ pc' = "exit"
  /\ exitcode' = IF write_text(output).exc = "" THEN 0 ELSE 1
  /\ UNCHANGED <<tool, argv_ok, file, vulns, dialect, blocks, output>>
  /\ UNCHANGED call_vars

Next == Main \/ Parse \/ Render \/ Write

-----------------------------------------------------------------------------
(* The report files the runs are given. *)

RECURSIVE RestrictFrom(_, _, _)
RestrictFrom(d, keep, i) ==
  IF i > Len(d.k) THEN PyDict(<<>>, <<>>)
  ELSE LET rest == RestrictFrom(d, keep, i + 1)
       IN  IF d.k[i] \in keep THEN PyDict(<<d.k[i]>> \o rest.k, <<d.v[i]>> \o rest.v)
           ELSE rest

\* The dict d without the keys outside keep.
Restrict(d, keep) == RestrictFrom(d, keep, 1)

\* d with any subset of its keys absent.
SubDicts(d) == {Restrict(d, keep) : keep \in SUBSET {d.k[i] : i \in 1..Len(d.k)}}

\* The lists of at most n items of S.
ListsUpTo(S, n) == UNION {[1..m -> S] : m \in 0..n}

EmptyDict == PyDict(<<>>, <<>>)
Dict1(key, value) == PyDict(<<key>>, <<value>>)

\* Values of every JSON type.
AnyType == {PyStr(Sample.other), PyInt(5), PyNone, PyList(<<>>), EmptyDict}

\* Top-level values that are not objects.
NotObjects == {PyNone, PyInt(5), PyStr(Sample.other), PyList(<<>>)}

\* Objects with any of the keys the format detector looks at, holding any type.
DetectDocs ==
  {PyDict(i.k \o s.k \o r.k, i.v \o s.v \o r.v) :
     i \in {EmptyDict} \cup {Dict1(K.issues, x) : x \in AnyType},
     s \in {EmptyDict} \cup {Dict1(K.schema, x) :
              x \in AnyType \cup {PyStr(Sample.sarifSchema), PyList(<<PyStr(K.sarif)>>)}},
     r \in {EmptyDict} \cup {Dict1(K.runs, x) : x \in AnyType}}

\* SonarQube: an issue with every field, and the issues of the multi-issue reports
SonarIssue ==
  PyDict(<<K.key, K.component, K.line, K.message, K.severity, K.rule>>,
         <<PyStr(Sample.k1), PyStr(Sample.component), PyInt(7), PyStr(Sample.m),
           PyStr(Sample.MAJOR), PyStr(Sample.r1)>>)

SonarIssues ==
  { SonarIssue,
    EmptyDict,
    PyDict(<<K.component, K.line, K.severity>>, <<PyStr(Sample.plain), PyInt(0), PyNone>>),
    Dict1(K.message, PyInt(5)),
    PyStr(Sample.other),
    Dict1(K.component, PyNone) }

SonarDocs ==
  {Dict1(K.issues, PyList(issues)) : issues \in ListsUpTo(SonarIssues, MaxRecords)}
  \cup {Dict1(K.issues, PyList(<<issue>>)) : issue \in SubDicts(SonarIssue)}

\* SARIF: the result of the specification's scenario, with any of its keys,
\* nested ones included, absent
SarifLocations ==
  {PyList(<<>>), PyList(<<EmptyDict>>)}
  \cup {PyList(<<Dict1(K.physicalLocation, PyDict(a.k \o r.k, a.v \o r.v))>>) :
          a \in {EmptyDict, Dict1(K.artifactLocation, EmptyDict),
                 Dict1(K.artifactLocation, Dict1(K.uri, PyStr(Sample.apppy)))},
          r \in {EmptyDict, Dict1(K.region, EmptyDict),
                 Dict1(K.region, Dict1(K.startLine, PyInt(0))),
                 Dict1(K.region, Dict1(K.startLine, PyInt(42)))}}

SarifResult ==
  PyDict(<<K.ruleId, K.level, K.message, K.locations>>,
         <<PyStr(Sample.R1), PyStr(Sample.error), Dict1(K.text, PyStr(Sample.SQL)),
           PyList(<<Dict1(K.physicalLocation,
                          PyDict(<<K.artifactLocation, K.region>>,
                                 <<Dict1(K.uri, PyStr(Sample.apppy)),
                                   Dict1(K.startLine, PyInt(42))>>))>>)>>)

SarifPartialResults ==
  UNION {SubDicts(Put(Put(SarifResult, K.message, m), K.locations, l)) :
           m \in {EmptyDict, Dict1(K.text, PyStr(Sample.SQL))}, l \in SarifLocations}

SarifResults ==
  { SarifResult,
    EmptyDict,
    PyDict(<<K.ruleId, K.level>>, <<PyStr(Sample.r1), PyNone>>),
    PyInt(5),
    Dict1(K.message, PyStr(Sample.m)) }

SarifRuns ==
  {EmptyDict} \cup {Dict1(K.results, PyList(rs)) : rs \in ListsUpTo(SarifResults, MaxRecords)}

SarifDocs ==
  {Dict1(K.runs, PyList(<<run>>)) : run \in SarifRuns}
  \cup {Dict1(K.runs, PyList(runs)) :
          runs \in ListsUpTo({EmptyDict, Dict1(K.results, PyList(<<SarifResult>>)),
                              Dict1(K.results, PyList(<<EmptyDict, SarifResult>>))},
                             MaxRecords)}
  \cup {Dict1(K.runs, PyList(<<Dict1(K.results, PyList(<<r>>))>>)) :
          r \in SarifPartialResults}
  \cup {PyDict(<<K.schema, K.runs>>,
               <<PyStr(Sample.sarifSchema),
                 PyList(<<Dict1(K.results, PyList(<<SarifResult>>))>>)>>)}

\* Generic: objects whose list-valued keys hold finding-like elements
GenericItem ==
  PyDict(<<K.id, K.title, K.message, K.description, K.severity, K.location, K.file,
           K.recommendation>>,
         <<PyStr(Sample.k1), PyStr(Sample.t), PyStr(Sample.m), PyStr(Sample.d),
           PyStr(Sample.low), PyStr(Sample.loc), PyStr(Sample.plain), PyStr(Sample.r1)>>)

GenericItems == {GenericItem, Dict1(K.message, PyStr(Sample.m)), EmptyDict, PyStr(Sample.other)}

GenericDocs ==
  {Dict1(Sample.findings, PyList(items)) : items \in ListsUpTo(GenericItems, MaxRecords)}
  \cup {Dict1(Sample.findings, PyList(<<item>>)) : item \in SubDicts(GenericItem)}
  \cup {PyDict(<<Sample.meta, Sample.findings, Sample.more>>,
               <<m, PyList(<<a>>), PyList(<<b>>)>>) :
          m \in {PyStr(Sample.other), EmptyDict},
          a \in GenericItems, b \in {GenericItem, PyStr(Sample.other)}}

\* Snyk: a vulnerability with every field, with any of its keys absent
SnykVulnerability ==
  PyDict(<<K.packageName, K.version, K.title, K.severity, K.identifiers, K.cvssScore,
           K.fixedIn, K.upgradePath>>,
         <<PyStr(Sample.lodash), PyStr(Sample.v1), PyStr(Sample.proto), PyStr(Sample.high),
           Dict1(K.CVE, PyList(<<PyStr(Sample.cve1)>>)), PyInt(7),
           PyList(<<PyStr(Sample.v2)>>), PyList(<<PyBool(FALSE), PyStr(Sample.v3)>>)>>)

SnykPartialVulnerabilities ==
  SubDicts(SnykVulnerability) \cup SubDicts(Put(SnykVulnerability, K.identifiers, EmptyDict))

SnykVulnerabilities ==
  { SnykVulnerability,
    EmptyDict,
    PyDict(<<K.packageName, K.severity>>, <<PyStr(Sample.lodash), PyStr(Sample.critical)>>),
    PyDict(<<K.severity, K.upgradePath>>,
           <<PyStr(Sample.weird), PyList(<<PyBool(FALSE), PyStr(Sample.v3)>>)>>),
    Dict1(K.severity, PyNone),
    PyStr(Sample.other) }

SnykDocs ==
  {Dict1(K.vulnerabilities, PyList(vs)) : vs \in ListsUpTo(SnykVulnerabilities, MaxRecords)}
  \cup {Dict1(K.vulnerabilities, PyList(<<v>>)) : v \in SnykPartialVulnerabilities}
  \cup {EmptyDict}

\* OWASP ZAP: an alert with every field, with any of its keys absent
ZapAlert ==
  PyDict(<<K.alert, K.desc, K.instances, K.solution, K.riskdesc, K.confidence, K.cweid,
           K.wascid>>,
         <<PyStr(Sample.xss), PyStr(Sample.d), PyList(<<Dict1(K.uri, PyStr(Sample.url))>>),
           PyStr(Sample.sol), PyStr(Sample.risk), PyStr(Sample.conf), PyStr(Sample.cwe),
           PyStr(Sample.wasc)>>)

ZapPartialAlerts ==
  SubDicts(ZapAlert) \cup SubDicts(Put(ZapAlert, K.instances, PyList(<<EmptyDict>>)))

ZapAlerts ==
  { ZapAlert,
    EmptyDict,
    Dict1(K.instances, PyList(<<>>)),
    Dict1(K.desc, PyInt(5)),
    PyInt(5) }

ZapSites ==
  {EmptyDict} \cup {Dict1(K.alerts, PyList(as)) : as \in ListsUpTo(ZapAlerts, MaxRecords)}

ZapDocs ==
  {Dict1(K.site, PyList(<<site>>)) : site \in ZapSites}
  \cup {Dict1(K.site, PyList(sites)) :
          sites \in ListsUpTo({EmptyDict, Dict1(K.alerts, PyList(<<ZapAlert>>)),
                               Dict1(K.alerts, PyList(<<EmptyDict, ZapAlert>>))},
                              MaxRecords)}
  \cup {Dict1(K.site, PyList(<<Dict1(K.alerts, PyList(<<alert>>))>>)) :
          alert \in ZapPartialAlerts}
  \cup {EmptyDict}

\* Reports of one record whose title holds a lone surrogate.
SurrogateDocs(t) ==
  CASE t \in {"sast", "dastpr"} ->
         {Dict1(K.issues, PyList(<<Put(SonarIssue, K.message, PyStr(Sample.lone))>>))}
    [] t = "sca" ->
         {Dict1(K.vulnerabilities,
                PyList(<<Put(SnykVulnerability, K.title, PyStr(Sample.lone))>>))}
    [] t = "zap" ->
         {Dict1(K.site,
                PyList(<<Dict1(K.alerts,
                               PyList(<<Put(ZapAlert, K.alert, PyStr(Sample.lone))>>))>>))}

\* The documents each entry point is run on.
Docs(t) ==
  CASE t \in {"sast", "dastpr"} ->
         NotObjects \cup DetectDocs \cup SonarDocs \cup SarifDocs \cup GenericDocs
           \cup SurrogateDocs(t)
    [] t = "sca" -> NotObjects \cup SnykDocs \cup SurrogateDocs(t)
    [] t = "zap" -> NotObjects \cup ZapDocs \cup SurrogateDocs(t)

Missing == [state |-> "missing", data |-> PyNone]
Invalid == [state |-> "invalid", data |-> PyNone]
Json(data) == [state |-> "json", data |-> data]

\* The report files an entry point is run on: absent, not JSON, or a document.
Files(t) == {Missing, Invalid} \cup {Json(d) : d \in Docs(t)}

-----------------------------------------------------------------------------
(* The specification of a run: any entry point, on any report file. *)

Init ==
  /\ tool \in Tools
  /\ \/ argv_ok = FALSE /\ file = Missing
     \/ argv_ok = TRUE /\ file \in Files(tool)
  /\ pc = "main"
  /\ vulns = <<>>
  /\ dialect = ""
  /\ blocks = <<>>
  /\ output = <<>>
  /\ outfile = NoFile
  /\ exc = ""
  /\ exitcode = -1
  /\ NoCall

Spec == Init /\ [][Next]_vars


-----------------------------------------------------------------------------
(* The formatters as functions: each is applied to findings whose fields   *)
(* are long enough for the untruncated text to reach MAX_CHARS_PER_ITEM.   *)

\* How far past MAX_CHARS_PER_ITEM the longest untruncated text goes.
Far == 1000

\* The text a formatter builds before it looks at the length;
\* format_sca_simple returns that text as it is.
untruncated(t, v, idx) ==
  CASE t = "sast"   -> format_sast_text(v, idx)
    [] t = "dastpr" -> format_dast_text(v, idx)
    [] t = "sca"    -> format_sca_simple(v, idx)
    [] t = "zap"    -> zap_format_dast_text(v, idx)

\* The marker a formatter ends a truncated block with.
marker(t) ==
  CASE t = "sast"   -> ParsastText.truncated
    [] t = "dastpr" -> PardastText.truncated
    [] t = "zap"    -> ZapText.truncated

\* A finding as a parser builds it from the sample record of its format.
SampleFinding(t) ==
  CASE t = "sast"   -> sonarqube_issue(SonarIssue).val
    [] t = "dastpr" -> zap_alert(ZapAlert).val
    [] t = "sca"    -> snyk_vulnerability(SnykVulnerability).val
    [] t = "zap"    -> zap_alert(ZapAlert).val

\* The fields of a finding that hold free text.
TextFields(t) ==
  IF t = "sca" THEN {K.package, K.title, K.recommended_version, K.cve}
  ELSE {K.title, K.description, K.location, K.recommendation}

\* The lengths of untruncated text the formatters are given.
TextLengths ==
  ((MAX_CHARS_PER_ITEM - Slack)..(MAX_CHARS_PER_ITEM + Slack))
  \cup {MAX_CHARS_PER_ITEM + Far}

\* The sample finding with one field made of n characters.
WithField(t, field, n) == Put(SampleFinding(t), field, PyStr(Rep("x", n)))

\* The sample finding with one field as long as it takes for the untruncated
\* text to have the given length.
Stretched(t, field, length) ==
  WithField(t, field, length - Len(untruncated(t, WithField(t, field, 1), 1).val.s) + 1)

\* The findings a formatter is applied to.
Findings(t) ==
  {SampleFinding(t), EmptyDict}
  \cup {Stretched(t, field, length) : field \in TextFields(t), length \in TextLengths}

InitFormat ==
  /\ tool \in Tools
  /\ \E v \in Findings(tool) : vulns \in {<<v>>, <<SampleFinding(tool), v>>}
  /\ argv_ok = TRUE
  /\ file = Missing
  /\ pc = "format"
  /\ dialect = ""
  /\ blocks = <<>>
  /\ output = <<>>
  /\ outfile = NoFile
  /\ exc = ""
  /\ exitcode = -1
  /\ NoCall

\* The loop over the findings has ended as r.
Formatted(r) ==
  IF r.exc # ""
    THEN pc' = "raised" /\ exc' = r.exc /\ UNCHANGED blocks
    ELSE pc' = "formatted" /\ blocks' = r.val /\ UNCHANGED exc

\* The dict d after d.setdefault(key, default), which stores the default under
\* a key that is absent: not what get() does
after_setdefault(d, key, default) == IF HasKey(d, key) THEN d ELSE Put(d, key, default)

\* The dict d after d.get(key, default): get() stores nothing, whether the key
\* is there or not
after_get(d, key, default) == d

RECURSIVE after_gets(_, _)
\* The dict d after d.get(key, default) for each <<key, default>> of reads
after_gets(d, reads) ==
  IF reads = <<>> THEN d
  ELSE after_gets(after_get(d, Head(reads)[1], Head(reads)[2]), Tail(reads))

\* The finding v after the formatter of an entry point has run on it: the two
\* format_sast and format_dast of the parsers read v with get() only (the reads
\* an 'or' skips are counted too), format_sca_simple with v[...] only, and
\* none has a statement that stores into v or deletes from it.
after_format(t, v) ==
  CASE t \in {"sast", "dastpr"} ->
         after_gets(v, <<  <<K.title, PyNone>>, <<K.id, PyNone>>, <<K.description, PyNone>>,
                           <<K.location, PyNone>>, <<K.recommendation, PyNone>>  >>)
    [] t = "zap" ->
         after_gets(v, <<  <<K.title, PyNone>>, <<K.id, PyNone>>, <<K.description, PyNone>>,
                           <<K.location, PyNone>>, <<K.recommendation, PyNone>>,
                           <<K.severity, PyStr(ZapText.Unknown)>>,
                           <<K.confidence, PyStr(ZapText.Unknown)>>,
                           <<K.cweid, PyNone>>, <<K.wascid, PyNone>>  >>)
    [] t = "sca" -> v

\* The findings after generate_summary: the loop reads v['severity'] and counts
\* in severity_counts, a dict of its own.
after_summary(findings) == findings

\* for i, v in enumerate(findings, 1): the formatter of the entry point is
\* applied to each finding in turn
FormatEach ==
  /\ pc = "format"
  /\ Formatted(format_loop(tool, <<>>, vulns, 1))
  /\ vulns' = [i \in 1..Len(vulns) |-> after_format(tool, vulns[i])]
  /\ UNCHANGED <<tool, argv_ok, file, dialect, output, outfile, exitcode>>
  /\ UNCHANGED call_vars

\* generate_summary(vulns), on the findings format_sca_simple has rendered
Summarise ==
  /\ pc = "formatted"
  /\ tool = "sca"
  /\ output' = generate_summary(vulns)
  /\ vulns' = after_summary(vulns)
  /\ pc' = "summarised"
  /\ UNCHANGED <<tool, argv_ok, file, dialect, blocks, outfile, exc, exitcode>>
  /\ UNCHANGED call_vars

NextFormat == FormatEach \/ Summarise

SpecFormat == InitFormat /\ [][NextFormat]_vars

-----------------------------------------------------------------------------
(* The per-finding ceiling. *)

\* C1: every block a formatter returns, whichever formatter it is and however
\* long the fields of the finding are, has at most MAX_CHARS_PER_ITEM
\* characters.
C1_BlockWithinCeiling ==
  \A i \in 1..Len(blocks) : Len(blocks[i]) <= MAX_CHARS_PER_ITEM

\* C2: format_sast and both format_dast truncate a block if and only if its
\* untruncated text is longer than MAX_CHARS_PER_ITEM; the block is then the
\* first MAX_CHARS_PER_ITEM - 12 characters of that text followed by the
\* marker, so it ends with the marker and has MAX_CHARS_PER_ITEM - 12 +
\* len(marker) characters; a text of MAX_CHARS_PER_ITEM characters or fewer is
\* returned as it is.
C2_TruncationRule ==
  (pc = "formatted" /\ tool \in {"sast", "dastpr", "zap"}) =>
    /\ Len(blocks) = Len(vulns)
    /\ \A i \in 1..Len(blocks) :
         LET text == untruncated(tool, vulns[i], i).val.s
         IN  IF Len(text) > MAX_CHARS_PER_ITEM
               THEN /\ blocks[i] = Take(text, MAX_CHARS_PER_ITEM - 12) \o marker(tool)
                    /\ EndsWith(blocks[i], marker(tool))
                    /\ Len(blocks[i]) = MAX_CHARS_PER_ITEM - 12 + Len(marker(tool))
               ELSE blocks[i] = text

\* C2, the case just past the edge: the second of two findings formatted by
\* format_sast has an untruncated text of MAX_CHARS_PER_ITEM + 1 characters, and
\* its block is cut and ends with the marker.
C2_JustPastTheCeiling ==
  /\ pc = "formatted"
  /\ tool = "sast"
  /\ Len(blocks) = 2
  /\ Len(untruncated(tool, vulns[2], 2).val.s) = MAX_CHARS_PER_ITEM + 1
  /\ EndsWith(blocks[2], marker(tool))
  /\ Len(blocks[2]) = MAX_CHARS_PER_ITEM - 12 + Len(marker(tool))

-----------------------------------------------------------------------------
(* Format detection. *)

\* The run is past its parser, on a report that is a JSON object.
ParsedObject ==
  /\ pc \notin {"main", "parse"}
  /\ file.state = "json"
  /\ IsDict(file.data)

\* The value under '$schema' contains "sarif"; a number, a boolean or null
\* contains nothing.
SchemaNamesSarif(data) ==
  /\ HasKey(data, K.schema)
  /\ Get(data, K.schema, PyNone).t \in {"str", "list", "dict"}
  /\ Truthy(In(K.sarif, Get(data, K.schema, PyNone)).val)

\* The dialect an object has by the order of precedence: SonarQube, then SARIF,
\* then Generic.
Precedence(data) ==
  IF HasKey(data, K.issues) THEN "sonarqube"
  ELSE IF SchemaNamesSarif(data) \/ HasKey(data, K.runs) THEN "sarif"
  ELSE "generic"

\* C3: parse_report dispatches by strict precedence; an object with the key
\* issues goes to the SonarQube parser, otherwise one whose $schema value
\* contains "sarif" or that has the key runs goes to the SARIF parser, and
\* every other object goes to the Generic parser.
C3_DetectorPrecedence ==
  (tool \in {"sast", "dastpr"} /\ ParsedObject) => dialect = Precedence(file.data)

\* C4: for a top-level object, whatever the types of the values under issues,
\* $schema and runs, the detection of parse_report selects a dialect without
\* raising.
C4_DetectionNeverRaises ==
  (tool \in {"sast", "dastpr"} /\ ParsedObject) => dialect \in {"sonarqube", "sarif", "generic"}

-----------------------------------------------------------------------------
(* The parsers, record by record. *)

RECURSIVE Flatten(_)
\* The items of the lists of a sequence, in order.
Flatten(lists) == IF lists = <<>> THEN <<>> ELSE Head(lists) \o Flatten(Tail(lists))

\* The items of the value under key, <<>> when d has no such key.
ItemsUnder(d, key) == Iter(Get(d, key, PyList(<<>>))).val

\* The dict elements of a list value, nothing for a value that is no list.
DictItems(x) == IF IsList(x) THEN SelectSeq(x.v, IsDict) ELSE <<>>

\* The source records of a report in the order of the traversal: issues[];
\* runs[] then results[]; the top-level keys then the dict elements of their
\* lists; vulnerabilities[]; site[] then alerts[].
Records(t, d, data) ==
  CASE t = "sca" -> ItemsUnder(data, K.vulnerabilities)
    [] t = "zap" ->
         Flatten([i \in 1..Len(ItemsUnder(data, K.site)) |->
                    ItemsUnder(ItemsUnder(data, K.site)[i], K.alerts)])
    [] d = "sonarqube" -> ItemsUnder(data, K.issues)
    [] d = "sarif" ->
         Flatten([i \in 1..Len(ItemsUnder(data, K.runs)) |->
                    ItemsUnder(ItemsUnder(data, K.runs)[i], K.results)])
    [] d = "generic" -> Flatten([i \in 1..Len(data.v) |-> DictItems(data.v[i])])

\* The finding a parser builds from one record.
FindingOf(t, d, record) ==
  CASE t = "sca" -> snyk_vulnerability(record)
    [] t = "zap" -> zap_alert(record)
    [] d = "sonarqube" -> sonarqube_issue(record)
    [] d = "sarif" -> sarif_result(record)
    [] d = "generic" -> Ok(generic_item(record))

\* The parser has just returned the findings of a report that is an object.
ParserReturned ==
  /\ pc = "render"
  /\ file.state = "json"
  /\ IsDict(file.data)

\* C5: every parser returns one finding per source record, in the order of the
\* source: the i-th finding is the one built from the i-th record of the
\* traversal, none dropped, doubled or moved.
C5_OneFindingPerRecordInOrder ==
  ParserReturned =>
    /\ Len(vulns) = Len(Records(tool, dialect, file.data))
    /\ \A i \in 1..Len(vulns) :
         Ok(vulns[i]) = FindingOf(tool, dialect, Records(tool, dialect, file.data)[i])

\* C5, two records that differ: a parser has returned two findings that are
\* not the same, so their order shows.
C5_TwoRecordsTwoFindings ==
  /\ ParserReturned
  /\ Len(Records(tool, dialect, file.data)) = 2
  /\ Len(vulns) = 2
  /\ vulns[1] # vulns[2]
  /\ dialect = "sonarqube"

\* The reports with one record that has nothing but what must be there: {}.
MinimalDocs(t) ==
  CASE t \in {"sast", "dastpr"} ->
         { Dict1(K.issues, PyList(<<EmptyDict>>)),
           Dict1(K.runs, PyList(<<Dict1(K.results, PyList(<<EmptyDict>>))>>)),
           Dict1(Sample.findings, PyList(<<EmptyDict>>)) }
    [] t = "sca" -> {Dict1(K.vulnerabilities, PyList(<<EmptyDict>>))}
    [] t = "zap" -> {Dict1(K.site, PyList(<<Dict1(K.alerts, PyList(<<EmptyDict>>))>>))}

\* v[key] is there and is a str with at least one character.
NonEmptyStr(v, key) ==
  /\ HasKey(v, key)
  /\ IsStr(Get(v, key, PyNone))
  /\ Get(v, key, PyNone).s # <<>>

\* C6: for every dialect, parsing a minimal record never raises and gives a
\* finding whose title, location, severity and recommendation are all there
\* as non-empty strings.
C6_MinimalRecordIsComplete ==
  (pc \notin {"main", "parse"} /\ file.state = "json" /\ file.data \in MinimalDocs(tool)) =>
    /\ exc = ""
    /\ Len(vulns) = 1
    /\ \A key \in {K.title, K.location, K.severity, K.recommendation} :
         NonEmptyStr(vulns[1], key)

\* The reports of one record, an object with any of its optional keys, nested
\* ones too, absent.
PartialDocs(t) ==
  CASE t \in {"sast", "dastpr"} ->
         {Dict1(K.issues, PyList(<<issue>>)) : issue \in SubDicts(SonarIssue)}
         \cup {Dict1(K.runs, PyList(<<Dict1(K.results, PyList(<<r>>))>>)) :
                 r \in SarifPartialResults}
         \cup {Dict1(Sample.findings, PyList(<<item>>)) : item \in SubDicts(GenericItem)}
    [] t = "sca" ->
         {Dict1(K.vulnerabilities, PyList(<<v>>)) : v \in SnykPartialVulnerabilities}
    [] t = "zap" ->
         {Dict1(K.site, PyList(<<Dict1(K.alerts, PyList(<<alert>>))>>)) :
            alert \in ZapPartialAlerts}

\* The record of a format with every key.
FullRecord(t, d) ==
  CASE t = "sca" -> SnykVulnerability
    [] t = "zap" -> ZapAlert
    [] d = "sonarqube" -> SonarIssue
    [] d = "sarif" -> SarifResult
    [] d = "generic" -> GenericItem

\* The report is an object of one key, holding a list of one object.
OneElementDoc ==
  /\ file.state = "json"
  /\ IsDict(file.data)
  /\ Len(file.data.v) = 1
  /\ IsList(file.data.v[1])
  /\ Len(file.data.v[1].v) = 1
  /\ IsDict(file.data.v[1].v[1])

\* C7: no parser raises on a missing optional field: for a record that is an
\* object with any of its optional keys absent, nested keys included, the
\* parser completes and the finding has every entry the finding of the full
\* record has, a default standing in for what is absent.
C7_MissingFieldsGetDefaults ==
  (pc \notin {"main", "parse"} /\ OneElementDoc /\ file.data \in PartialDocs(tool)) =>
    /\ exc = ""
    /\ Len(vulns) = 1
    /\ vulns[1].k = FindingOf(tool, dialect, FullRecord(tool, dialect)).val.k

\* C7, a nested key absent: the Snyk vulnerability has identifiers but no CVE
\* under it, and the run has ended well with 'N/A' for the cve.
C7_NestedKeyAbsent ==
  /\ tool = "sca"
  /\ pc = "exit"
  /\ file = Json(Dict1(K.vulnerabilities,
                       PyList(<<Put(SnykVulnerability, K.identifiers, EmptyDict)>>)))
  /\ exc = ""
  /\ outfile.written
  /\ Len(vulns) = 1
  /\ Get(vulns[1], K.cve, PyNone) = PyStr(ParscaText.NA)

\* The two orders of a well-formed record and a malformed one.
Siblings(good, bad) == {PyList(<<good, b>>) : b \in bad} \cup {PyList(<<b, good>>) : b \in bad}

\* The reports of two records, one well-formed and one malformed: an element
\* that is no object, or a null severity or level.
SiblingDocs(t) ==
  CASE t \in {"sast", "dastpr"} ->
         {Dict1(K.issues, l) : l \in Siblings(SonarIssue, {PyStr(Sample.other)})}
         \cup {Dict1(K.runs, PyList(<<Dict1(K.results, l)>>)) :
                 l \in Siblings(SarifResult,
                                {PyInt(5),
                                 PyDict(<<K.ruleId, K.level>>, <<PyStr(Sample.r1), PyNone>>)})}
    [] t = "sca" ->
         {Dict1(K.vulnerabilities, l) :
            l \in Siblings(SnykVulnerability, {PyStr(Sample.other), Dict1(K.severity, PyNone)})}
    [] t = "zap" ->
         {Dict1(K.site, PyList(<<Dict1(K.alerts, l)>>)) : l \in Siblings(ZapAlert, {PyInt(5)})}

\* C8: a malformed record does not end the processing of its siblings: the
\* well-formed record is parsed, the output is written, and no exception
\* leaves the loop of a parser or of a formatter.
C8_SiblingsSurvive ==
  (pc = "exit" /\ file.state = "json" /\ file.data \in SiblingDocs(tool)) =>
    /\ exc = ""
    /\ Len(vulns) >= 1
    /\ outfile.written

-----------------------------------------------------------------------------
(* Reports that cannot be read. *)

\* C9: when the report is not JSON, every parser entry point returns an empty
\* list and raises nothing, so prepare_*_text completes and writes its output.
C9_ParseFailureGivesEmptyList ==
  (pc = "exit" /\ argv_ok /\ file.state = "invalid") =>
    /\ exc = ""
    /\ vulns = <<>>
    /\ outfile.written

\* C10: in every entry point, when the report path does not exist the run
\* ends with a nonzero exit status and writes no output file.
C10_MissingReportAborts ==
  (pc = "exit" /\ argv_ok /\ file.state = "missing") =>
    /\ exitcode # 0
    /\ ~outfile.written

-----------------------------------------------------------------------------
(* What prepare_*_text writes. *)

\* The findings of the kind an entry point renders: those of its type for
\* parsast.py and parsers/pardast.py, all of them for parsca.py and
\* dast/pardast.py.
Requested(t, findings) ==
  CASE t = "sast"   -> of_type(findings, ParsastText.SAST)
    [] t = "dastpr" -> of_type(findings, PardastText.DAST)
    [] t = "sca"    -> findings
    [] t = "zap"    -> findings

\* The header an entry point starts its file with; parsca.py has none.
Header(t) ==
  CASE t = "sast"   -> ParsastText.header
    [] t = "dastpr" -> PardastText.header
    [] t = "sca"    -> <<>>
    [] t = "zap"    -> ZapText.header

\* The fixed text an entry point writes for no findings; that of
\* dast/pardast.py has two lines.
NoFindingsText(t) ==
  CASE t = "sast"   -> ParsastText.none
    [] t = "dastpr" -> PardastText.none
    [] t = "sca"    -> ParscaText.none
    [] t = "zap"    -> ZapText.none1 \o ZapText.none2

\* The run has ended with its output file written.
Written == pc = "exit" /\ exitcode = 0 /\ outfile.written

\* The run has ended without an exception, its parser having returned no
\* finding of the requested kind.
EndedWithNoFindings ==
  /\ pc = "exit"
  /\ argv_ok
  /\ exc = ""
  /\ ~(tool = "zap" /\ file = Missing)
  /\ Requested(tool, vulns) = <<>>

\* C11: when the list of findings of the requested kind is empty, the file is
\* written, is not empty, holds no per-finding block, and is the header (where
\* there is one) followed by exactly the fixed no-findings text of the kind.
C11_EmptyListGivesTheFixedSentence ==
  EndedWithNoFindings =>
    /\ Written
    /\ blocks = <<>>
    /\ outfile.text # <<>>
    /\ outfile.text = Header(tool) \o NoFindingsText(tool)

\* C11, the scenario: parsca.py was run on {"vulnerabilities": []} and the file
\* is the single line "No SCA vulnerabilities found.".
C11_EmptyVulnerabilities ==
  /\ Written
  /\ tool = "sca"
  /\ file = Json(Dict1(K.vulnerabilities, PyList(<<>>)))
  /\ outfile.text = ParscaText.none
  /\ Len(outfile.text) = 30
  /\ outfile.text[Len(outfile.text)] = "\n"

-----------------------------------------------------------------------------
(* parsca.py on reports of several vulnerabilities of every severity, and  *)
(* on vulnerabilities with every shape of fixedIn and upgradePath.         *)

\* The most vulnerabilities in one of these reports.
MaxSorted == 4

\* A Snyk vulnerability of a package, with a severity.
SeverityRecord(package, severity) ==
  PyDict(<<K.packageName, K.severity>>, <<PyStr(package), PyStr(severity)>>)

\* One vulnerability of each severity, two of them low, and one of a severity
\* outside the four tiers.
SeverityRecords ==
  { SeverityRecord(Sample.lodash, Sample.low),
    SeverityRecord(Sample.express, Sample.low),
    SeverityRecord(Sample.lodash, Sample.critical),
    SeverityRecord(Sample.lodash, Sample.high),
    SeverityRecord(Sample.lodash, Sample.medium),
    SeverityRecord(Sample.lodash, Sample.weird) }

SeverityDocs ==
  {Dict1(K.vulnerabilities, PyList(vs)) : vs \in ListsUpTo(SeverityRecords, MaxSorted)}

\* What a vulnerability has under fixedIn; <<>> stands for no such key.
FixedIns ==
  { <<>>,
    <<PyList(<<>>)>>,
    <<PyNone>>,
    <<PyList(<<PyStr(Sample.v2)>>)>>,
    <<PyList(<<PyStr(Sample.v2), PyStr(Sample.v3)>>)>> }

\* What a vulnerability has under upgradePath; <<>> stands for no such key.
UpgradePaths ==
  { <<>>,
    <<PyList(<<>>)>>,
    <<PyList(<<PyBool(FALSE)>>)>>,
    <<PyList(<<PyBool(FALSE), PyStr(<<>>), PyNone, PyInt(0)>>)>>,
    <<PyList(<<PyStr(Sample.v123)>>)>>,
    <<PyList(<<PyBool(FALSE), PyStr(Sample.v123), PyStr(Sample.v124)>>)>>,
    <<PyList(<<PyBool(FALSE), PyStr(Sample.v123), PyBool(FALSE)>>)>>,
    <<PyList(<<PyStr(Sample.v123), PyStr(<<>>), PyStr(Sample.v124), PyStr(<<>>)>>)>> }

\* A vulnerability with the given fixedIn and upgradePath entries.
FixRecord(fixedIn, upgradePath) ==
  PyDict(<<K.packageName>> \o [i \in 1..Len(fixedIn) |-> K.fixedIn]
           \o [i \in 1..Len(upgradePath) |-> K.upgradePath],
         <<PyStr(Sample.lodash)>> \o fixedIn \o upgradePath)

FixRecords == {FixRecord(f, u) : f \in FixedIns, u \in UpgradePaths}

FixDocs == {Dict1(K.vulnerabilities, PyList(<<v>>)) : v \in FixRecords}

InitSca ==
  /\ tool = "sca"
  /\ argv_ok = TRUE
  /\ file \in {Json(d) : d \in SeverityDocs \cup FixDocs}
  /\ pc = "main"
  /\ vulns = <<>>
  /\ dialect = ""
  /\ blocks = <<>>
  /\ output = <<>>
  /\ outfile = NoFile
  /\ exc = ""
  /\ exitcode = -1
  /\ NoCall

SpecSca == InitSca /\ [][Next]_vars

-----------------------------------------------------------------------------
(* The order of the dependency findings. *)

\* The rank of a finding: CRITICAL 0, HIGH 1, MEDIUM 2, LOW 3, anything else 4.
RankOf(v) ==
  LET severity == Get(v, K.severity, PyNone)
  IN  IF severity = PyStr(<<"C", "R", "I", "T", "I", "C", "A", "L">>) THEN 0
      ELSE IF severity = PyStr(<<"H", "I", "G", "H">>) THEN 1
      ELSE IF severity = PyStr(<<"M", "E", "D", "I", "U", "M">>) THEN 2
      ELSE IF severity = PyStr(<<"L", "O", "W">>) THEN 3
      ELSE 4

\* The findings of rank r, in the order they have in the list.
OfRank(findings, r) == SelectSeq(findings, LAMBDA v : RankOf(v) = r)

\* parsca.py has rendered the findings of a report that is JSON.
ScaRendered ==
  /\ tool = "sca"
  /\ pc \in {"write", "exit"}
  /\ exc = ""
  /\ file.state = "json"

\* C12: prepare_sca_text orders the findings by rank: the rendered sequence is
\* a permutation of the parsed list, non-decreasing in rank, in which findings
\* of equal rank keep the order they had; the blocks are in that order.
C12_StableSortBySeverity ==
  ScaRendered =>
    /\ Len(vulns) = Len(parse_snyk_report(file).val.v)
    /\ \A r \in 0..4 : OfRank(vulns, r) = OfRank(parse_snyk_report(file).val.v, r)
    /\ \A i, j \in 1..Len(vulns) : i < j => RankOf(vulns[i]) <= RankOf(vulns[j])
    /\ Len(blocks) = Len(vulns)
    /\ \A i \in 1..Len(vulns) : Ok(PyStr(blocks[i])) = format_sca_simple(vulns[i], i)

\* C12, the scenario: the report has vulnerabilities of severities low,
\* critical, low, high, and the findings rendered are the critical one, the
\* high one, then the two low ones in the order of the report.
C12_LowCriticalLowHigh ==
  /\ ScaRendered
  /\ file = Json(Dict1(K.vulnerabilities,
                       PyList(<<SeverityRecord(Sample.lodash, Sample.low),
                                SeverityRecord(Sample.lodash, Sample.critical),
                                SeverityRecord(Sample.express, Sample.low),
                                SeverityRecord(Sample.lodash, Sample.high)>>)))
  /\ [i \in 1..4 |-> Get(vulns[i], K.severity, PyNone).s]
       = <<ParscaText.CRITICAL, ParscaText.HIGH, ParscaText.LOW, ParscaText.LOW>>
  /\ [i \in 1..4 |-> Get(vulns[i], K.package, PyNone).s]
       = <<Sample.lodash, Sample.lodash, Sample.lodash, Sample.express>>

-----------------------------------------------------------------------------
(* The recommended version. *)

\* The positions of the entries of a list that are not falsy.
NonFalsy(versions) == {i \in 1..Len(versions) : Truthy(versions[i])}

\* The version the two stages give: the first element of a non-empty fixedIn
\* list; otherwise the entry of upgradePath nearest to its end that is not
\* falsy; otherwise "No fix available".
FixStages(record) ==
  LET fixedIn     == Get(record, K.fixedIn, PyList(<<>>))
      upgradePath == Get(record, K.upgradePath, PyList(<<>>)).v
  IN  IF IsList(fixedIn) /\ fixedIn.v # <<>> THEN fixedIn.v[1]
      ELSE IF NonFalsy(upgradePath) # {}
        THEN upgradePath[CHOOSE i \in NonFalsy(upgradePath) :
                           \A j \in NonFalsy(upgradePath) : j <= i]
      ELSE PyStr(<<"N", "o", " ", "f", "i", "x", " ", "a", "v", "a", "i", "l", "a", "b", "l", "e">>)

\* parsca.py has parsed a report of one vulnerability, one of FixRecords.
FixParsed ==
  /\ tool = "sca"
  /\ pc \notin {"main", "parse"}
  /\ file.state = "json"
  /\ file.data \in FixDocs

\* C13: get_fixed_version gives the first element of fixedIn when that is a
\* non-empty list; otherwise the first entry of upgradePath, scanning from its
\* end, that is not falsy; otherwise, both being absent, empty or all falsy,
\* "No fix available".
C13_FixedVersionInTwoStages ==
  FixParsed =>
    /\ exc = ""
    /\ Len(vulns) = 1
    /\ Get(vulns[1], K.recommended_version, PyNone) = FixStages(file.data.v[1].v[1])

\* C13, the scenario: fixedIn is [] and upgradePath is [false, "1.2.3",
\* "1.2.4"], and the recommended version of the finding is "1.2.4".
C13_EmptyFixedInUsesUpgradePath ==
  /\ FixParsed
  /\ file.data.v[1].v[1]
       = FixRecord(<<PyList(<<>>)>>,
                   <<PyList(<<PyBool(FALSE), PyStr(Sample.v123), PyStr(Sample.v124)>>)>>)
  /\ Len(vulns) = 1
  /\ Get(vulns[1], K.recommended_version, PyNone) = PyStr(<<"1", ".", "2", ".", "4">>)

-----------------------------------------------------------------------------
(* parsast.py on SARIF results with several locations and every level, and *)
(* on SonarQube issues with every shape of component, line and severity.   *)

\* The most entries in the locations of a result.
MaxLocations == 2

\* A physicalLocation with the given artifactLocation and region; <<>> stands
\* for no such key.
PhysicalLocation(artifact, region) ==
  Dict1(K.physicalLocation,
        PyDict([i \in 1..Len(artifact) |-> K.artifactLocation]
                 \o [i \in 1..Len(region) |-> K.region],
               artifact \o region))

\* Entries of locations: with a URI and a start line, with a zero start line,
\* with no region, with no URI, and with nothing.
LocationEntries ==
  { PhysicalLocation(<<Dict1(K.uri, PyStr(Sample.apppy))>>, <<Dict1(K.startLine, PyInt(42))>>),
    PhysicalLocation(<<Dict1(K.uri, PyStr(Sample.plain))>>, <<Dict1(K.startLine, PyInt(0))>>),
    PhysicalLocation(<<Dict1(K.uri, PyStr(Sample.loc))>>, <<>>),
    PhysicalLocation(<<>>, <<Dict1(K.startLine, PyInt(7))>>),
    EmptyDict }

\* Results that differ in their locations only.
LocatedResults ==
  {Put(SarifResult, K.locations, PyList(l)) : l \in ListsUpTo(LocationEntries, MaxLocations)}

\* A result with the given ruleId, level and message; <<>> stands for no such key.
LevelledResult(ruleId, level, message) ==
  PyDict([i \in 1..Len(ruleId) |-> K.ruleId] \o [i \in 1..Len(level) |-> K.level]
           \o [i \in 1..Len(message) |-> K.message],
         ruleId \o level \o message)

\* Results that differ in ruleId, level and message.
LevelledResults ==
  {LevelledResult(r, l, m) :
     r \in {<<>>, <<PyStr(Sample.R1)>>},
     l \in {<<>>, <<PyStr(Sample.error)>>, <<PyStr(Sample.Note)>>, <<PyStr(Sample.WARNING)>>},
     m \in {<<>>, <<EmptyDict>>, <<Dict1(K.text, PyStr(Sample.SQL))>>}}

\* An issue with the given component, line and severity; <<>> stands for no
\* such key.
ShapedIssue(component, line, severity) ==
  PyDict(<<K.key, K.message, K.rule>> \o [i \in 1..Len(component) |-> K.component]
           \o [i \in 1..Len(line) |-> K.line] \o [i \in 1..Len(severity) |-> K.severity],
         <<PyStr(Sample.k1), PyStr(Sample.m), PyStr(Sample.r1)>>
           \o component \o line \o severity)

ShapedIssues ==
  {ShapedIssue(c, l, s) :
     c \in {<<>>, <<PyStr(Sample.plain)>>, <<PyStr(Sample.component)>>, <<PyStr(Sample.deep)>>,
            <<PyStr(Sample.trailing)>>},
     l \in {<<>>, <<PyInt(0)>>, <<PyInt(7)>>},
     s \in {<<>>, <<PyStr(Sample.MAJOR)>>, <<PyStr(Sample.minor)>>, <<PyStr(Sample.Blocker)>>}}

\* A SARIF report of one run with one result.
SarifDoc(result) == Dict1(K.runs, PyList(<<Dict1(K.results, PyList(<<result>>))>>))

SastDocs ==
  {SarifDoc(r) : r \in LocatedResults \cup LevelledResults}
  \cup {Dict1(K.issues, PyList(<<issue>>)) : issue \in ShapedIssues}

InitSast ==
  /\ tool = "sast"
  /\ argv_ok = TRUE
  /\ file \in {Json(d) : d \in SastDocs}
  /\ pc = "main"
  /\ vulns = <<>>
  /\ dialect = ""
  /\ blocks = <<>>
  /\ output = <<>>
  /\ outfile = NoFile
  /\ exc = ""
  /\ exitcode = -1
  /\ NoCall

SpecSast == InitSast /\ [][Next]_vars

-----------------------------------------------------------------------------
(* The findings of parse_sarif. *)

\* parsast.py has parsed a SARIF report of one result.
SarifParsed ==
  /\ tool = "sast"
  /\ pc \notin {"main", "parse"}
  /\ file.state = "json"
  /\ file.data \in {SarifDoc(r) : r \in LocatedResults \cup LevelledResults}

\* The one result of the report.
TheResult == file.data.v[1].v[1].v[1].v[1]

\* The URI of an entry of locations, "Unknown" without one.
UriOf(entry) ==
  Get(Get(Get(entry, K.physicalLocation, EmptyDict), K.artifactLocation, EmptyDict),
      K.uri, PyStr(<<"U", "n", "k", "n", "o", "w", "n">>))

\* The start line of an entry of locations, 0 without one.
StartLineOf(entry) ==
  Get(Get(Get(entry, K.physicalLocation, EmptyDict), K.region, EmptyDict),
      K.startLine, PyInt(0))

\* The location the first entry of locations gives.
FirstLocation(locations) ==
  IF locations = <<>> THEN <<"U", "n", "k", "n", "o", "w", "n">>
  ELSE IF StartLineOf(locations[1]).n # 0
    THEN UriOf(locations[1]).s \o <<":">> \o IntStr(StartLineOf(locations[1]).n)
  ELSE UriOf(locations[1]).s

\* C14: parse_sarif builds location from the first entry of locations only:
\* <uri>:<startLine> when that entry has a nonzero start line, the URI alone
\* when the start line is absent or zero, "Unknown" when locations is empty;
\* the entries after the first change nothing.
C14_LocationFromFirstEntry ==
  (SarifParsed /\ TheResult \in LocatedResults) =>
    /\ exc = ""
    /\ dialect = "sarif"
    /\ Len(vulns) = 1
    /\ Get(vulns[1], K.location, PyNone)
         = PyStr(FirstLocation(Get(TheResult, K.locations, PyNone).v))

\* C14, two entries: the first entry of locations is app.py at line 42, a second
\* one names another file, and the location is "app.py:42".
C14_SecondEntryIgnored ==
  /\ SarifParsed
  /\ TheResult \in LocatedResults
  /\ Len(Get(TheResult, K.locations, PyNone).v) = 2
  /\ UriOf(Get(TheResult, K.locations, PyNone).v[2]) = PyStr(Sample.plain)
  /\ Len(vulns) = 1
  /\ Get(vulns[1], K.location, PyNone) = PyStr(<<"a", "p", "p", ".", "p", "y", ":", "4", "2">>)

-----------------------------------------------------------------------------
(* The other fields of the findings of parse_sarif. *)

\* The levels of LevelledResults and of SarifResult in upper case, spelt out.
LevelUppercased(level) ==
  CASE level = <<"e", "r", "r", "o", "r">> -> <<"E", "R", "R", "O", "R">>
    [] level = <<"N", "o", "t", "e">> -> <<"N", "O", "T", "E">>
    [] level = <<"W", "A", "R", "N", "I", "N", "G">> -> <<"W", "A", "R", "N", "I", "N", "G">>

\* The severity of a result: its level in upper case, "WARNING" without one.
SeverityOfLevel(result) ==
  IF HasKey(result, K.level) THEN LevelUppercased(Get(result, K.level, PyNone).s)
  ELSE <<"W", "A", "R", "N", "I", "N", "G">>

\* message.text of a result, "No title" without one.
MessageText(result) ==
  Get(Get(result, K.message, EmptyDict), K.text,
      PyStr(<<"N", "o", " ", "t", "i", "t", "l", "e">>))

\* "Review and fix <ruleId>", the ruleId being "N/A" without one.
ReviewAndFix(result) ==
  <<"R", "e", "v", "i", "e", "w", " ", "a", "n", "d", " ", "f", "i", "x", " ">>
    \o Get(result, K.ruleId, PyStr(<<"N", "/", "A">>)).s

\* C15: parse_sarif sets severity to the level of the result in upper case,
\* "WARNING" when there is no level; title and description both to
\* message.text; recommendation to "Review and fix <ruleId>".  The result with
\* ruleId R1, level error, uri app.py and startLine 42 gives exactly one
\* finding, with location "app.py:42", severity "ERROR" and recommendation
\* "Review and fix R1".
C15_SarifFields ==
  SarifParsed =>
    /\ exc = ""
    /\ Len(vulns) = 1
    /\ Get(vulns[1], K.severity, PyNone) = PyStr(SeverityOfLevel(TheResult))
    /\ Get(vulns[1], K.title, PyNone) = MessageText(TheResult)
    /\ Get(vulns[1], K.description, PyNone) = MessageText(TheResult)
    /\ Get(vulns[1], K.recommendation, PyNone) = PyStr(ReviewAndFix(TheResult))
    /\ TheResult = SarifResult =>
         /\ Get(vulns[1], K.location, PyNone)
              = PyStr(<<"a", "p", "p", ".", "p", "y", ":", "4", "2">>)
         /\ Get(vulns[1], K.severity, PyNone) = PyStr(<<"E", "R", "R", "O", "R">>)
         /\ Get(vulns[1], K.recommendation, PyNone)
              = PyStr(<<"R", "e", "v", "i", "e", "w", " ", "a", "n", "d", " ", "f", "i", "x",
                        " ", "R", "1">>)

\* The result R1 / error / app.py / 42 has been parsed into its one finding.
C15_R1ErrorAppPy42 ==
  /\ SarifParsed
  /\ TheResult = SarifResult
  /\ Get(TheResult, K.ruleId, PyNone) = PyStr(<<"R", "1">>)
  /\ Get(TheResult, K.level, PyNone) = PyStr(<<"e", "r", "r", "o", "r">>)
  /\ UriOf(Get(TheResult, K.locations, PyNone).v[1]) = PyStr(<<"a", "p", "p", ".", "p", "y">>)
  /\ StartLineOf(Get(TheResult, K.locations, PyNone).v[1]) = PyInt(42)
  /\ Len(vulns) = 1
  /\ Get(vulns[1], K.severity, PyNone) = PyStr(<<"E", "R", "R", "O", "R">>)

-----------------------------------------------------------------------------
(* The findings of parse_sonarqube. *)

\* parsast.py has parsed a SonarQube report of one issue.
SonarParsed ==
  /\ tool = "sast"
  /\ pc \notin {"main", "parse"}
  /\ file.state = "json"
  /\ file.data \in {Dict1(K.issues, PyList(<<issue>>)) : issue \in ShapedIssues}

\* The one issue of the report.
TheIssue == file.data.v[1].v[1]

\* The last colon-delimited segment of s: the longest ending of s that holds
\* no colon.
LastSegment(s) ==
  LET n == CHOOSE n \in 0..Len(s) :
             /\ \A i \in (Len(s) - n + 1)..Len(s) : s[i] # ":"
             /\ n < Len(s) => s[Len(s) - n] = ":"
  IN  SubSeq(s, Len(s) - n + 1, Len(s))

\* The location of an issue: the file path, then ":" and the line when the
\* line is nonzero.
IssueLocation(issue) ==
  LET path == LastSegment(Get(issue, K.component, PyStr(<<>>)).s)
      line == Get(issue, K.line, PyInt(0)).n
  IN  IF line = 7 THEN path \o <<":", "7">> ELSE path

\* C16: parse_sonarqube sets location to the last colon-delimited segment of
\* component, followed by ":" and line when line is nonzero, and to that file
\* path alone otherwise; severity is the value of the report, unchanged.
C16_SonarLocationAndSeverity ==
  SonarParsed =>
    /\ exc = ""
    /\ dialect = "sonarqube"
    /\ Len(vulns) = 1
    /\ Get(vulns[1], K.location, PyNone) = PyStr(IssueLocation(TheIssue))
    /\ Get(TheIssue, K.line, PyInt(0)).n \in {0, 7}
    /\ HasKey(TheIssue, K.severity) =>
         Get(vulns[1], K.severity, PyNone) = Get(TheIssue, K.severity, PyNone)

\* The issue of component org:proj:src/a.py, line 7 and severity minor has
\* been parsed: location src/a.py:7, severity still in lower case.
C16_DeepComponentLowercaseSeverity ==
  /\ SonarParsed
  /\ Get(TheIssue, K.component, PyNone)
       = PyStr(<<"o", "r", "g", ":", "p", "r", "o", "j", ":", "s", "r", "c", "/", "a", ".", "p", "y">>)
  /\ Get(TheIssue, K.line, PyNone) = PyInt(7)
  /\ Get(TheIssue, K.severity, PyNone) = PyStr(<<"m", "i", "n", "o", "r">>)
  /\ Len(vulns) = 1
  /\ Get(vulns[1], K.location, PyNone)
       = PyStr(<<"s", "r", "c", "/", "a", ".", "p", "y", ":", "7">>)
  /\ Get(vulns[1], K.severity, PyNone) = PyStr(<<"m", "i", "n", "o", "r">>)

-----------------------------------------------------------------------------
(* No dependency finding is dropped. *)

\* The severities of SeverityRecords in upper case, spelt out.
ScaUppercased(severity) ==
  CASE severity = <<"l", "o", "w">> -> <<"L", "O", "W">>
    [] severity = <<"h", "i", "g", "h">> -> <<"H", "I", "G", "H">>
    [] severity = <<"m", "e", "d", "i", "u", "m">> -> <<"M", "E", "D", "I", "U", "M">>
    [] severity = <<"c", "r", "i", "t", "i", "c", "a", "l">>
         -> <<"C", "R", "I", "T", "I", "C", "A", "L">>
    [] severity = <<"M", "o", "d", "e", "r", "a", "t", "e">>
         -> <<"M", "O", "D", "E", "R", "A", "T", "E">>

\* The severity stored for a record: its severity in upper case, "UNKNOWN"
\* without one.
StoredSeverity(record) ==
  IF HasKey(record, K.severity) THEN ScaUppercased(Get(record, K.severity, PyNone).s)
  ELSE <<"U", "N", "K", "N", "O", "W", "N">>

\* The vulnerabilities of the report parsca.py was given.
TheRecords == Get(file.data, K.vulnerabilities, PyNone).v

\* The first line of the block of the finding at position i.
BlockHead(v, i) ==
  LET severity == Get(v, K.severity, PyNone).s
      mark == CASE RankOf(v) = 0 -> <<"*", "*", "*", "*">>
                [] RankOf(v) = 1 -> <<"*", "*", "*">>
                [] RankOf(v) = 2 -> <<"*", "*">>
                [] RankOf(v) = 3 -> <<"*">>
                [] OTHER -> <<"-">>
  IN  <<"[">> \o IntStr(i) \o <<"]", " ">> \o mark \o <<" ">> \o severity \o <<"\n">>

\* What holds of the reports whose severities are strings or absent: every
\* record yields a finding whose severity is the value of the record in upper
\* case ("UNKNOWN" without one), and every finding, those outside CRITICAL,
\* HIGH, MEDIUM and LOW included, is a block of the output.
StringSeveritiesKept ==
  ScaRendered =>
    /\ Len(vulns) = Len(TheRecords)
    /\ \A record \in {TheRecords[n] : n \in 1..Len(TheRecords)} :
         Cardinality({i \in 1..Len(vulns) :
                        Get(vulns[i], K.severity, PyNone) = PyStr(StoredSeverity(record))})
           = Cardinality({i \in 1..Len(TheRecords) :
                            StoredSeverity(TheRecords[i]) = StoredSeverity(record)})
    /\ Len(blocks) = Len(TheRecords)
    /\ \A i \in 1..Len(blocks) :
         /\ Len(blocks[i]) > Len(BlockHead(vulns[i], i))
         /\ SubSeq(blocks[i], 1, Len(BlockHead(vulns[i], i))) = BlockHead(vulns[i], i)
    /\ TheRecords # <<>> => output = generate_summary(vulns) \o join_blocks(blocks)
    /\ pc = "exit" => outfile = [written |-> TRUE, text |-> output]

\* parsca.py has ended on a report whose vulnerabilities are objects.
ScaEndedOnObjects ==
  /\ tool = "sca"
  /\ pc = "exit"
  /\ file.state = "json"
  /\ IsDict(file.data)
  /\ IsList(Get(file.data, K.vulnerabilities, PyNone))
  /\ \A i \in 1..Len(TheRecords) : IsDict(TheRecords[i])

\* C17: in the dependency scan no finding is dropped because of its severity:
\* every record of vulnerabilities yields a finding, and every finding, those
\* outside CRITICAL, HIGH, MEDIUM and LOW included, is a block of the output.
C17_NoFindingDropped ==
  ScaEndedOnObjects =>
    /\ Len(vulns) = Len(TheRecords)
    /\ Len(blocks) = Len(TheRecords)
    /\ TheRecords # <<>> => output = generate_summary(vulns) \o join_blocks(blocks)

-----------------------------------------------------------------------------
(* parse_generic on any JSON value. *)

\* An element with the given title, description and message; <<>> stands for no
\* such key.
FallbackItem(title, description, message) ==
  PyDict([i \in 1..Len(title) |-> K.title] \o [i \in 1..Len(description) |-> K.description]
           \o [i \in 1..Len(message) |-> K.message],
         title \o description \o message)

\* Elements whose title, description and message are absent, falsy or truthy.
FallbackItems ==
  {FallbackItem(t, d, m) :
     t \in {<<>>, <<PyStr(<<>>)>>, <<PyNone>>, <<PyStr(Sample.t)>>},
     d \in {<<>>, <<PyStr(<<>>)>>, <<PyStr(Sample.d)>>},
     m \in {<<>>, <<PyStr(<<>>)>>, <<PyStr(Sample.m)>>}}

\* The reports of one element.
FallbackDocs == {Dict1(Sample.findings, PyList(<<item>>)) : item \in FallbackItems}

\* JSON values of every shape: values that are no object, objects whose values
\* are of any type, lists whose elements are of any type.
GenericValues ==
  NotObjects
  \cup {PyBool(TRUE), PyList(<<GenericItem>>), EmptyDict}
  \cup FallbackDocs
  \cup {PyDict(<<Sample.meta, Sample.findings, Sample.more>>, <<m, a, b>>) :
          m \in AnyType,
          a \in {PyList(<<>>),
                 PyList(<<GenericItem, PyStr(Sample.other), EmptyDict>>),
                 PyList(<<PyInt(5), PyList(<<GenericItem>>), PyNone>>)},
          b \in {PyList(<<GenericItem>>), PyStr(Sample.other), PyNone,
                 Dict1(K.message, PyStr(Sample.m))}}

InitGeneric ==
  /\ tool = "sast"
  /\ argv_ok = TRUE
  /\ file \in {Json(d) : d \in GenericValues}
  /\ pc = "generic"
  /\ vulns = <<>>
  /\ dialect = ""
  /\ blocks = <<>>
  /\ output = <<>>
  /\ outfile = NoFile
  /\ exc = ""
  /\ exitcode = -1
  /\ NoCall

\* parse_generic has ended as r.
GenericEnded(r) ==
  IF r.exc # ""
    THEN pc' = "raised" /\ exc' = r.exc /\ UNCHANGED vulns
    ELSE pc' = "returned" /\ vulns' = r.val.v /\ UNCHANGED exc

\* parse_generic(data)
ParseGeneric ==
  /\ pc = "generic"
  /\ GenericEnded(parse_generic(file.data))
  /\ UNCHANGED <<tool, argv_ok, file, dialect, blocks, output, outfile, exitcode>>
  /\ UNCHANGED call_vars

NextGeneric == ParseGeneric

SpecGeneric == InitGeneric /\ [][NextGeneric]_vars

-----------------------------------------------------------------------------
(* The fallback chain of parse_generic. *)

\* The value of the chain: the first field if it is truthy, else the message,
\* else the default of the message.
Chain(item, first, default) ==
  IF HasKey(item, first) /\ Truthy(Get(item, first, PyNone)) THEN Get(item, first, PyNone)
  ELSE IF HasKey(item, K.message) THEN Get(item, K.message, PyNone)
  ELSE PyStr(default)

\* The one element of a report of FallbackDocs.
TheItem == file.data.v[1].v[1]

\* C18: parse_generic gives title the title of the element if that is truthy
\* and its message otherwise, and description the description of the element
\* if that is truthy and its message otherwise; an element with a message and
\* nothing else gives a finding whose title and description are that message.
C18_FallbackChain ==
  (pc = "returned" /\ file.data \in FallbackDocs) =>
    /\ Len(vulns) = 1
    /\ Get(vulns[1], K.title, PyNone)
         = Chain(TheItem, K.title, <<"N", "o", " ", "t", "i", "t", "l", "e">>)
    /\ Get(vulns[1], K.description, PyNone)
         = Chain(TheItem, K.description,
                 <<"N", "o", " ", "d", "e", "s", "c", "r", "i", "p", "t", "i", "o", "n">>)
    /\ TheItem.k = <<K.message>> =>
         /\ Get(vulns[1], K.title, PyNone) = TheItem.v[1]
         /\ Get(vulns[1], K.description, PyNone) = TheItem.v[1]

\* The element that has a message and nothing else has been parsed: title and
\* description are the message.
C18_OnlyAMessage ==
  /\ pc = "returned"
  /\ file.data = Dict1(Sample.findings, PyList(<<Dict1(K.message, PyStr(Sample.m))>>))
  /\ Len(vulns) = 1
  /\ Get(vulns[1], K.title, PyNone) = PyStr(Sample.m)
  /\ Get(vulns[1], K.description, PyNone) = PyStr(Sample.m)

-----------------------------------------------------------------------------
(* parse_generic raises nothing. *)

\* The places of the object-valued elements of the list-valued top-level keys
\* of a value; none when the value is no object.
ObjectElements(data) ==
  IF data.t # "dict" THEN {}
  ELSE UNION {{<<i, j>> : j \in {n \in 1..Len(data.v[i].v) : data.v[i].v[n].t = "dict"}} :
                i \in {n \in 1..Len(data.v) : data.v[n].t = "list"}}

\* C19: parse_generic raises on no JSON value: a value that is no object gives
\* the empty list, top-level values that are no lists and list elements that
\* are no objects are skipped, and the list returned has one finding for each
\* object-valued element of a list-valued top-level key.
C19_GenericNeverRaises ==
  pc # "generic" =>
    /\ pc = "returned"
    /\ exc = ""
    /\ file.data.t # "dict" => vulns = <<>>
    /\ Len(vulns) = Cardinality(ObjectElements(file.data))
    /\ \A i \in 1..Len(vulns) : vulns[i].t = "dict" /\ HasKey(vulns[i], K.title)

\* The report {meta: "other", findings: [object, string, {}], more: "other"}
\* has given two findings: the string of the list and the two values that are
\* no lists were skipped.
C19_MixedShapes ==
  /\ pc = "returned"
  /\ file.data = PyDict(<<Sample.meta, Sample.findings, Sample.more>>,
                        <<PyStr(Sample.other),
                          PyList(<<GenericItem, PyStr(Sample.other), EmptyDict>>),
                          PyStr(Sample.other)>>)
  /\ Len(vulns) = 2
  /\ exc = ""

-----------------------------------------------------------------------------
(* The output file of a run. *)

\* What holds of the runs whose parser or formatter raises: there is no output
\* file, and before the last step of a run there is none either.
NoFileBeforeTheWrite ==
  /\ pc # "exit" => outfile = NoFile
  /\ exc \notin {"", "UnicodeEncodeError"} => outfile = NoFile

\* C20: a run is atomic with respect to its output file: the file is written
\* once, whole, after the parsing and the rendering; a run that raises leaves
\* no output file, created or modified.
C20_WholeFileOrNoFile ==
  /\ pc # "exit" => outfile = NoFile
  /\ pc = "exit" =>
       IF exc = "" /\ exitcode = 0
         THEN outfile = [written |-> TRUE, text |-> output]
         ELSE outfile = NoFile

-----------------------------------------------------------------------------
(* The findings a formatter is given. *)

-----------------------------------------------------------------------------
(* The same parser run twice on the same report. *)

InitTwice ==
  /\ tool \in Tools
  /\ argv_ok = TRUE
  /\ file \in Files(tool)
  /\ pc = "first"
  /\ vulns = <<>>
  /\ dialect = ""
  /\ blocks = <<>>
  /\ output = <<>>
  /\ outfile = NoFile
  /\ exc = ""
  /\ exitcode = -1
  /\ NoCall

\* A call of the parser has ended as r: the caller has the list it returned, or
\* the exception it raised.
CallEnded(r) ==
  /\ exc' = r.exc
  /\ dialect' = r.dialect
  /\ vulns' = IF r.exc # "" THEN <<>> ELSE r.val.v

\* The first call of the parser on the report
ParseOnce ==
  /\ pc = "first"
  /\ CallEnded(parse(tool, file))
  /\ pc' = "second"
  /\ UNCHANGED <<tool, argv_ok, file, blocks, output, outfile, exitcode>>
  /\ UNCHANGED call_vars

\* The second call, in the same process, on the same report
ParseAgain ==
  /\ pc = "second"
  /\ CallEnded(parse(tool, file))
  /\ pc' = "twice"
  /\ UNCHANGED <<tool, argv_ok, file, blocks, output, outfile, exitcode>>
  /\ UNCHANGED call_vars

NextTwice == ParseOnce \/ ParseAgain

SpecTwice == InitTwice /\ [][NextTwice]_vars

-----------------------------------------------------------------------------
(* What the output of the dependency scan does not tell. *)

\* The report files that give parsca.py no finding: no file, a file that is not
\* JSON, and a report whose vulnerabilities is the empty list.
FindingFreeFiles == {Missing, Invalid, Json(Dict1(K.vulnerabilities, PyList(<<>>)))}

\* C23: prepare_sca_text ends normally and writes the same bytes, the one
\* sentence "No SCA vulnerabilities found.", for a missing report, for a
\* report that is not JSON and for a report with vulnerabilities: [], so the
\* file written does not tell a failure to parse from a report with no
\* finding.
C23_EmptyResultIsAmbiguous ==
  (tool = "sca" /\ argv_ok /\ pc = "exit" /\ file \in FindingFreeFiles) =>
    /\ exc = ""
    /\ exitcode = 0
    /\ vulns = <<>>
    /\ outfile = [written |-> TRUE,
                  text |-> <<"N", "o", " ", "S", "C", "A", " ", "v", "u", "l", "n", "e", "r",
                             "a", "b", "i", "l", "i", "t", "i", "e", "s", " ", "f", "o", "u",
                             "n", "d", ".", "\n">>]

\* parsca.py has ended normally on a report that is not JSON, with the sentence
\* written.
C23_InvalidJsonLooksClean ==
  /\ tool = "sca"
  /\ pc = "exit"
  /\ file = Invalid
  /\ exitcode = 0
  /\ outfile.written
  /\ outfile.text = ParscaText.none
-----------------------------------------------------------------------------
(* hf_client_api.py: HuggingFaceClient.generate and _extract_json. *)

MaxRetries == 3

RECURSIVE find_from(_, _, _)
\* The 0-based index of the first c of s at or after the i-th character, -1
\* when there is none.
find_from(s, c, i) ==
  IF i > Len(s) THEN -1
  ELSE IF s[i] = c THEN i - 1
  ELSE find_from(s, c, i + 1)

\* s.find(c), c one character
find(s, c) == find_from(s, c, 1)

RECURSIVE rfind_from(_, _, _)
\* The 0-based index of the last c of s at or before the i-th character, -1
\* when there is none.
rfind_from(s, c, i) ==
  IF i < 1 THEN -1
  ELSE IF s[i] = c THEN i - 1
  ELSE rfind_from(s, c, i - 1)

\* s.rfind(c), c one character
rfind(s, c) == rfind_from(s, c, Len(s))

\* json.loads on the slices _extract_json takes of the sample completions: the
\* one object among them, and JSONDecodeError for every other text
json_loads(s) ==
  IF s = Completion.bare THEN Ok(PyDict(<<<<"a">>>>, <<PyInt(1)>>))
  ELSE Raise("JSONDecodeError")

\* HuggingFaceClient._extract_json
extract_json(text) ==
  LET start == find(text, "{")
      end == rfind(text, "}") + 1
  IN  IF start # -1 /\ end > start
        THEN IF json_loads(SubSeq(text, start + 1, end)).exc = ""
               THEN json_loads(SubSeq(text, start + 1, end)).val
               ELSE PyNone
        ELSE PyNone

\* {"success": True, "text": text, "json": json_data}
success_result(text) ==
  PyDict(<<ClientText.success, ClientText.text, ClientText.json>>,
         <<PyBool(TRUE), PyStr(text), extract_json(text)>>)

\* {"success": False, "error": str(e)}
failure_result(message) ==
  PyDict(<<ClientText.success, ClientText.error>>, <<PyBool(FALSE), PyStr(message)>>)

\* attempt < retries: the last attempt counts as one more to come. Not what
\* line 55 tests.
has_more_attempts_off_by_one(n, of) == n < of

\* attempt < retries - 1
has_more_attempts(n, of) == n < of - 1

\* What the completion service answers to one call: a completion with a text
\* or with no content, a RequestException, or another exception; body is the
\* content, or the exception's message.
ClientReplies ==
  {[kind |-> "completion", status |-> 0, body |-> PyStr(t)] :
     t \in {Completion.prose, Completion.bare, Completion.wrapped, Completion.padded,
            Completion.broken, Completion.reversed, Completion.empty}}
  \cup {[kind |-> "completion", status |-> 0, body |-> PyNone],
        [kind |-> "RequestException", status |-> 0, body |-> PyStr(Completion.timeout)],
        [kind |-> "Exception", status |-> 0, body |-> PyStr(Completion.boom)]}

\* No parser runs.
NoRun ==
  /\ tool = ""
  /\ argv_ok = TRUE
  /\ file = Missing
  /\ vulns = <<>>
  /\ dialect = ""
  /\ blocks = <<>>
  /\ output = <<>>
  /\ outfile = NoFile
  /\ exc = ""
  /\ exitcode = -1

\* generate is called with retries in 0..MaxRetries; the loop variable is not
\* bound before the first iteration (attempt = -1 stands for that).
InitClient ==
  /\ NoRun
  /\ pc = "for"
  /\ retries \in 0..MaxRetries
  /\ attempt = -1 /\ calls = 0 /\ sleeps = 0
  /\ reply = NoReply /\ returned = PyNone

\* for attempt in range(retries): the next attempt, or the end of the loop
\* and of the function, which then returns None
ForAttempt ==
  /\ pc = "for"
  /\ IF attempt + 1 < retries
       THEN /\ attempt' = attempt + 1
            /\ pc' = "create"
            /\ returned' = returned
       ELSE /\ attempt' = attempt
            /\ pc' = "returned"
            /\ returned' = PyNone
  /\ UNCHANGED <<retries, calls, sleeps, reply>>
  /\ UNCHANGED run_vars

\* self.client.chat.completions.create(...)
Create ==
  /\ pc = "create"
  /\ \E r \in ClientReplies : reply' = r
  /\ calls' = calls + 1
  /\ pc' = "answered"
  /\ UNCHANGED <<retries, attempt, sleeps, returned>>
  /\ UNCHANGED run_vars

\* The completion has a content: strip it, extract its JSON, return.
Completed ==
  /\ pc = "answered"
  /\ reply.kind = "completion" /\ IsStr(reply.body)
  /\ returned' = success_result(Strip(reply.body.s))
  /\ pc' = "returned"
  /\ UNCHANGED <<retries, attempt, calls, sleeps, reply>>
  /\ UNCHANGED run_vars

\* except RequestException
RequestFailed ==
  /\ pc = "answered"
  /\ reply.kind = "RequestException"
  /\ IF has_more_attempts(attempt, retries)
       THEN /\ pc' = "sleep"
            /\ returned' = returned
       ELSE /\ pc' = "returned"
            /\ returned' = failure_result(reply.body.s)
  /\ UNCHANGED <<retries, attempt, calls, sleeps, reply>>
  /\ UNCHANGED run_vars

\* time.sleep(5)
Sleep ==
  /\ pc = "sleep"
  /\ sleeps' = sleeps + 1
  /\ pc' = "for"
  /\ UNCHANGED <<retries, attempt, calls, reply, returned>>
  /\ UNCHANGED run_vars

\* except Exception: what create raised, or the AttributeError of None.strip()
Unexpected ==
  /\ pc = "answered"
  /\ \/ reply.kind = "Exception"
     \/ reply.kind = "completion" /\ ~IsStr(reply.body)
  /\ returned' = failure_result(IF reply.kind = "Exception" THEN reply.body.s
                                ELSE PyText.noStrip)
  /\ pc' = "returned"
  /\ UNCHANGED <<retries, attempt, calls, sleeps, reply>>
  /\ UNCHANGED run_vars

NextClient ==
  \/ ForAttempt
  \/ Create
  \/ Completed
  \/ RequestFailed
  \/ Sleep
  \/ Unexpected

\* Each step of generate is taken in the end: the call to the service and the
\* sleep return.
SpecClient == InitClient /\ [][NextClient]_vars /\ WF_vars(NextClient)

IsSuccess(r) ==
  /\ IsDict(r)
  /\ r.k = <<ClientText.success, ClientText.text, ClientText.json>>
  /\ r.v[1] = PyBool(TRUE)

IsFailure(r) ==
  /\ IsDict(r)
  /\ r.k = <<ClientText.success, ClientText.error>>
  /\ r.v[1] = PyBool(FALSE)

\* Where generate stands when it has made at least one call and returned.
ReturnedAfterACall == pc = "returned" /\ calls > 0

(* C24: generate makes at most `retries` calls to the completion service and
   always terminates.  It waits only after a RequestException and only when
   another attempt is to come, once before every call but the first; it
   returns a failure result when the last attempt fails with a
   RequestException or when any attempt fails otherwise, and a success result
   on the first attempt that gives a completion, after which no further call
   is made. *)
C24_BoundedRetries ==
  /\ [](calls <= retries)
  /\ <>(pc = "returned")
  /\ [](pc = "sleep" => reply.kind = "RequestException" /\ calls < retries)
  /\ [](pc \in {"create", "answered", "returned"} /\ calls > 0 =>
          sleeps = calls - 1 \/ (pc = "create" /\ sleeps = calls))
  /\ [](ReturnedAfterACall /\ reply.kind = "RequestException" =>
          calls = retries /\ IsFailure(returned))
  /\ [](ReturnedAfterACall /\ reply.kind = "Exception" => IsFailure(returned))
  /\ [](ReturnedAfterACall /\ reply.kind = "completion" /\ IsStr(reply.body) =>
          IsSuccess(returned))
  /\ [][pc = "returned" => calls' = calls]_vars

\* The third of three attempts succeeds after two RequestExceptions and two waits.
C24_ThirdAttemptSucceeds ==
  /\ pc = "returned"
  /\ retries = 3
  /\ calls = 3
  /\ sleeps = 2
  /\ IsSuccess(returned)
  /\ returned.v[3] = PyDict(<<<<"a">>>>, <<PyInt(1)>>)

(* C25: whatever the value of `retries`, 0 included, generate returns a
   record carrying a `success` flag, true with `text` and `json` or false with
   `error`, so that result['success'] is defined. *)
C25_ResultCarriesSuccess ==
  pc = "returned" => IsSuccess(returned) \/ IsFailure(returned)

-----------------------------------------------------------------------------
(* generate_policies.py: parse_findings and call_llm, as main() calls them. *)

\* Where the separators of s are.
separators(s, sep) == {i \in 1..Len(s) : s[i] = sep}

\* The k-th of the positions at, in increasing order; 0 for k = 0, and end
\* when there are fewer than k.
separator(at, end, k) ==
  IF k = 0 THEN 0
  ELSE IF k > Cardinality(at) THEN end
  ELSE CHOOSE i \in at : Cardinality({j \in at : j < i}) = k - 1

\* s.split(sep), sep one character
split(s, sep) ==
  LET at == separators(s, sep)
  IN  [k \in 1..(Cardinality(at) + 1) |->
         SubSeq(s, separator(at, Len(s) + 1, k - 1) + 1, separator(at, Len(s) + 1, k) - 1)]

RECURSIVE join_between(_, _, _, _)
\* sep.join(strs[lo-1:hi]), by halves
join_between(sep, strs, lo, hi) ==
  IF lo > hi THEN <<>>
  ELSE IF lo = hi THEN strs[lo]
  ELSE join_between(sep, strs, lo, (lo + hi) \div 2) \o sep
         \o join_between(sep, strs, (lo + hi) \div 2 + 1, hi)

\* sep.join(strs), for the many lines of a findings text
join(sep, strs) == join_between(sep, strs, 1, Len(strs))

\* len(content) > 4000
MaxFindingsChars == 4000

\* lines[:100]
MaxFindingsLines == 100

\* f"\n\n[... {n} additional lines truncated for brevity]"
truncation_notice(n) == PoliciesText.n1 \o IntStr(n) \o PoliciesText.n2

\* parse_findings, on the content read from txt_path
parse_findings(content) ==
  IF Len(content) > MaxFindingsChars
    THEN join(PoliciesText.nl, Take(split(content, "\n"), MaxFindingsLines))
           \o truncation_notice(Len(split(content, "\n")) - MaxFindingsLines)
    ELSE content

\* generate_fallback_policy()
generate_fallback_policy == PyStr(PoliciesText.fallback)

\* call_llm, on what requests.post gives: an exception, or a response with a
\* status code and a body that is JSON or not
call_llm(r) ==
  IF r.kind \notin {"json", "text"} THEN generate_fallback_policy
  ELSE IF r.status = 200
    THEN IF r.kind = "text" \/ ~IsDict(r.body) THEN generate_fallback_policy
         ELSE Get(r.body, PoliciesText.response, PyStr(<<>>))
  ELSE PyNone

RECURSIVE NumberedLines(_, _)
\* "\nlo ... \nhi": lines of a findings text after its first, each holding
\* its own number.
NumberedLines(lo, hi) ==
  IF lo > hi THEN <<>>
  ELSE IF lo = hi THEN <<"\n">> \o IntStr(lo)
  ELSE NumberedLines(lo, (lo + hi) \div 2) \o NumberedLines((lo + hi) \div 2 + 1, hi)

\* A findings text of n lines and len characters in all, the first line as
\* long as it takes.
FindingsText(n, len) == Rep("x", len - Len(NumberedLines(2, n))) \o NumberedLines(2, n)

\* The findings texts: around 100 lines and around 4000 characters.
FindingsTexts ==
  {FindingsText(n, len) : n \in {1, 2, 99, 100, 101, 102, 150},
                          len \in {3999, 4000, 4001, 4500}}

\* What requests.post gives: an exception, or a response with a status code
\* whose body is a JSON value (kind "json") or not JSON (kind "text").
LlmReplies ==
  {[kind |-> e, status |-> 0, body |-> PyNone] : e \in {"ConnectionError", "Timeout"}}
  \cup {[kind |-> "text", status |-> s, body |-> PyNone] : s \in {200, 404, 500}}
  \cup {[kind |-> "json", status |-> s, body |-> b] :
          s \in {200, 404, 500},
          b \in {Dict1(PoliciesText.response, PyStr(PoliciesText.policy)),
                 Dict1(PoliciesText.response, PyStr(PoliciesText.chat)),
                 Dict1(PoliciesText.response, PyStr(<<>>)),
                 Dict1(PoliciesText.response, PyNone),
                 Dict1(PoliciesText.model, PyStr(PoliciesText.chat)),
                 EmptyDict,
                 PyList(<<>>),
                 PyStr(PoliciesText.chat)}}

\* main() of generate_policies.py: --input names a findings text that parsast.py wrote.
InitPolicies ==
  /\ tool = "sast"
  /\ argv_ok = TRUE
  /\ file = Missing
  /\ vulns = <<>>
  /\ dialect = ""
  /\ blocks = <<>>
  /\ output \in FindingsTexts
  /\ outfile = [written |-> TRUE, text |-> output]
  /\ exc = ""
  /\ exitcode = -1
  /\ pc = "findings"
  /\ NoCall

\* sast_findings = parse_findings(args.input)
ParseFindings ==
  /\ pc = "findings"
  /\ returned' = PyStr(parse_findings(outfile.text))
  /\ pc' = "llm"
  /\ UNCHANGED <<retries, attempt, calls, sleeps, reply>>
  /\ UNCHANGED run_vars

\* response = call_llm(prompt, model)
CallLlm ==
  /\ pc = "llm"
  /\ \E r \in LlmReplies :
       /\ reply' = r
       /\ returned' = call_llm(r)
  /\ calls' = calls + 1
  /\ pc' = "policies"
  /\ UNCHANGED <<retries, attempt, sleeps>>
  /\ UNCHANGED run_vars

NextPolicies ==
  \/ ParseFindings
  \/ CallLlm

SpecPolicies == InitPolicies /\ [][NextPolicies]_vars

(* C26: call_llm returns a string on every path: the response text of the
   model when the request succeeds, the fallback policy text when the call
   fails, a status code other than 200 included. *)
C26_CallLlmReturnsAString ==
  pc = "policies" =>
    /\ IsStr(returned)
    /\ (reply.kind \notin {"json", "text"} \/ reply.status # 200 =>
          returned = generate_fallback_policy)

\* The lines of the findings text, and how many of them parse_findings keeps.
FindingsLines == split(outfile.text, "\n")
LinesKept == Min(MaxFindingsLines, Len(FindingsLines))

(* C27: parse_findings never lengthens the text and never states a negative
   count: of a findings text of more than 4000 characters it returns at most
   the first 100 lines followed by a notice whose count is the number of lines
   removed, which is not negative; a text of 4000 characters or fewer is
   returned unchanged. *)
C27_TruncationNeverLengthens ==
  pc = "llm" =>
    IF Len(outfile.text) > MaxFindingsChars
      THEN /\ Len(returned.s) <= Len(outfile.text)
           /\ returned.s = join(PoliciesText.nl, Take(FindingsLines, LinesKept))
                             \o truncation_notice(Len(FindingsLines) - LinesKept)
      ELSE returned.s = outfile.text

-----------------------------------------------------------------------------
(* The indexes of the blocks. *)

StartsWith(s, prefix) ==
  /\ Len(s) >= Len(prefix)
  /\ SubSeq(s, 1, Len(prefix)) = prefix

\* What the block of index i begins with, up to the text after the index.
IndexHead(t, i) ==
  CASE t = "sast"   -> ParsastText.f1 \o IntStr(i) \o ParsastText.f2
    [] t = "dastpr" -> PardastText.f1 \o IntStr(i) \o PardastText.f2
    [] t = "sca"    -> ParscaText.f1 \o IntStr(i) \o ParscaText.f2
    [] t = "zap"    -> ZapText.f1 \o IntStr(i) \o ZapText.f2

\* The formatter output exists: the text is rendered, or written at the end
\* of a run without an exception.
OutputRendered == (pc = "write" \/ Written) /\ exc = ""

(* C28: in every formatter output with N findings of the requested kind
   there are exactly N blocks, written one after the other at the end of the
   text, and the i-th block carries the index i, for i = 1..N; for SCA the
   i-th block is that of the i-th finding in the order sorted by severity. *)
C28_IndexesRunFromOne ==
  OutputRendered =>
    /\ Len(blocks) = Len(Requested(tool, vulns))
    /\ \A i \in 1..Len(blocks) : StartsWith(blocks[i], IndexHead(tool, i))
    /\ blocks # <<>> => EndsWith(output, join_blocks(blocks))
    /\ tool = "sca" =>
         /\ \A i \in 1..Len(blocks) : StartsWith(blocks[i], BlockHead(vulns[i], i))
         /\ \A i, j \in 1..Len(vulns) : i < j => RankOf(vulns[i]) <= RankOf(vulns[j])

\* The report lists a high finding, then a critical one: block 1 is the
\* critical one and block 2 the high one.
C28_CriticalTakesIndexOne ==
  /\ Written
  /\ tool = "sca"
  /\ file = Json(Dict1(K.vulnerabilities, PyList(<<SnykVulnerability,
         PyDict(<<K.packageName, K.severity>>, <<PyStr(Sample.lodash), PyStr(Sample.critical)>>)>>)))
  /\ Len(blocks) = 2
  /\ StartsWith(blocks[1], <<"[", "1", "]", " ", "*", "*", "*", "*", " ", "C", "R", "I", "T", "I", "C", "A", "L", "\n">>)
  /\ StartsWith(blocks[2], <<"[", "2", "]", " ", "*", "*", "*", " ", "H", "I", "G", "H", "\n">>)

-----------------------------------------------------------------------------
(* The summary header of parsca.py. *)

\* The header with the five numbers it states.
SummaryText(total, critical, high, medium, low) ==
  ParscaText.rule \o ParscaText.sumTitle \o ParscaText.rule
  \o ParscaText.sumTotal \o IntStr(total) \o ParscaText.nl
  \o ParscaText.sumCritical \o IntStr(critical) \o ParscaText.nl
  \o ParscaText.sumHigh \o IntStr(high) \o ParscaText.nl
  \o ParscaText.sumMedium \o IntStr(medium) \o ParscaText.nl
  \o ParscaText.sumLow \o IntStr(low) \o ParscaText.nl
  \o ParscaText.ruleEnd

\* How many vulnerabilities of the report have a severity that, uppercased,
\* is tier.
InReport(tier) ==
  Cardinality({n \in 1..Len(TheRecords) : StoredSeverity(TheRecords[n]) = tier})

\* How many have a severity outside the four tiers.
Unrecognized ==
  Cardinality({n \in 1..Len(TheRecords) :
    StoredSeverity(TheRecords[n]) \notin
      {ParscaText.CRITICAL, ParscaText.HIGH, ParscaText.MEDIUM, ParscaText.LOW}})

(* C29: the summary header of parsca.py states as total the number of
   rendered blocks, and as Critical, High, Medium and Low counts the numbers
   of findings of each tier: they sum to the total minus the number of
   findings whose severity is outside the four tiers, hence to the total
   exactly when there is no such finding. *)
C29_SummaryCounts ==
  ScaRendered /\ vulns # <<>> =>
    /\ output = SummaryText(Len(blocks), InReport(ParscaText.CRITICAL), InReport(ParscaText.HIGH),
                            InReport(ParscaText.MEDIUM), InReport(ParscaText.LOW))
                  \o join_blocks(blocks)
    /\ InReport(ParscaText.CRITICAL) + InReport(ParscaText.HIGH) + InReport(ParscaText.MEDIUM)
         + InReport(ParscaText.LOW) = Len(blocks) - Unrecognized
    /\ (InReport(ParscaText.CRITICAL) + InReport(ParscaText.HIGH) + InReport(ParscaText.MEDIUM)
          + InReport(ParscaText.LOW) = Len(blocks)) <=> (Unrecognized = 0)

\* Four findings, low, critical, Moderate and low: the total is 4 and the
\* counts are 1, 0, 0 and 2.
C29_OneOutsideTheTiers ==
  /\ ScaRendered
  /\ pc = "exit"
  /\ TheRecords = <<SeverityRecord(Sample.lodash, Sample.low),
                    SeverityRecord(Sample.lodash, Sample.critical),
                    SeverityRecord(Sample.lodash, Sample.weird),
                    SeverityRecord(Sample.express, Sample.low)>>
  /\ SubSeq(outfile.text, 1, Len(SummaryText(4, 1, 0, 0, 2))) = SummaryText(4, 1, 0, 0, 2)

-----------------------------------------------------------------------------
(* The kind of the findings of parse_report. *)

\* parse_report has returned.
ReportParsed ==
  /\ tool \in {"sast", "dastpr"}
  /\ pc \in {"render", "write", "exit"}
  /\ argv_ok
  /\ (exc = "" \/ (pc = "exit" /\ vulns # <<>>))

\* Every finding parse_report has returned has type SAST.
EveryFindingIsSast ==
  ReportParsed =>
    \A i \in 1..Len(vulns) : Get(vulns[i], K.type, PyNone) = PyStr(ParserInputText.SAST)

(* C30: every finding parse_report returns has type SAST, whatever the
   dialect, so parsast.py renders every parsed finding, while
   parsers/pardast.py, which keeps the findings of type DAST, renders no
   block and writes the no-DAST-findings sentence for every input report. *)
C30_SastRendersAllDastNone ==
  /\ EveryFindingIsSast
  /\ tool = "sast" /\ pc = "exit" /\ argv_ok /\ vulns # <<>> =>
       Written /\ Len(blocks) = Len(vulns)
  /\ tool = "dastpr" /\ pc = "exit" /\ argv_ok /\ file.state = "json" =>
       /\ Written
       /\ blocks = <<>>
       /\ outfile.text = PardastText.header \o PardastText.none

=============================================================================
